---- MODULE Spec2Model ----
(***************************************************************************)
(* Escrow vault ledger (programs/escrow-vault) and the pre-market trade    *)
(* lifecycle built on it (programs/premarket-trade).                       *)
(*                                                                         *)
(* Every instruction is one action.  An instruction that fails leaves the  *)
(* accounts as they were (the runtime reverts a failed transaction) and    *)
(* only the observation variable `last` records the attempt and its error. *)
(***************************************************************************)
EXTENDS Integers, Sequences, FiniteSets, TLC

VARIABLES
    vault_config,     \* VaultConfig: admin, emergency_admin, paused, authorized_traders
    user_balance,     \* UserBalance PDAs, keyed by <<user, token_mint>>
    vault_authority,  \* VaultAuthority PDAs, keyed by token_mint
    vault_ata,        \* tokens physically held by the vault's token account, per mint
    wallet,           \* tokens held in each user's own token account, per mint
    trade_config,     \* TradeConfig: admin, vault_program, relayers, economic_config, paused
    token_market,     \* TokenMarket accounts, keyed by account address
    trade_record,     \* TradeRecord accounts, keyed by account address
    order_status,     \* OrderStatus PDAs, keyed by order hash
    now,              \* Clock::get()?.unix_timestamp
    ticks,            \* how many times the clock has advanced
    last              \* the last instruction attempted and its outcome

vars == <<vault_config, user_balance, vault_authority, vault_ata, wallet,
          trade_config, token_market, trade_record, order_status, now, ticks, last>>

vaultVars == <<vault_config, user_balance, vault_authority, vault_ata, wallet>>
tradeVars == <<trade_config, token_market, trade_record, order_status>>
clockVars == <<now, ticks>>

(***************************************************************************)
(* Identities                                                              *)
(***************************************************************************)
Default == "default"                       \* Pubkey::default()
Users == {"u1", "u2", "u3"}
Admin == "admin"
EmergencyAdmin == "eadmin"
Signers == Users \cup {Admin, EmergencyAdmin}

Tokens == {"USDC", "USDT"}                 \* collateral mints
RealMint == "REAL"                         \* the mint a market is mapped to
Mints == Tokens \cup {RealMint}

SYS == "SystemProgram"
CB == "ComputeBudget"
SYSVAR == "Sysvar"
VAULT == "escrow_vault"
TRADE == "premarket_trade"
EVIL == "other_program"
Programs == {SYS, CB, SYSVAR, VAULT, TRADE, EVIL}
NoProgram == "none"
TopLevel == "top_level"                    \* the instruction was not reached by CPI

MaxTraders == 10                           \* capacity of authorized_traders

\* u64 ceiling, scaled so that every product stays inside TLC's integers
U64_MAX == 1000000000

(***************************************************************************)
(* Checked arithmetic (None is -1)                                         *)
(***************************************************************************)
None == -1

\* checked_add as it would be if the sum wrapped around
checked_add_wrapping(a, b) == (a + b) % (U64_MAX + 1)

checked_add(a, b) == IF a + b <= U64_MAX THEN a + b ELSE None
checked_sub(a, b) == IF a >= b THEN a - b ELSE None
checked_mul_wrapping(a, b) == (a * b) % (U64_MAX + 1)
checked_mul(a, b) == IF a = 0 \/ b <= U64_MAX \div a THEN a * b ELSE None
checked_div(a, b) == IF b = 0 THEN None ELSE a \div b
saturating_sub(a, b) == IF a >= b THEN a - b ELSE 0
Min(a, b) == IF a <= b THEN a ELSE b

Range(s) == {s[i] : i \in 1..Len(s)}
\* Vec::remove at the position of the first x
Remove(s, x) ==
    LET position == CHOOSE i \in 1..Len(s) : s[i] = x /\ \A j \in 1..(i - 1) : s[j] # x
    IN SubSeq(s, 1, position - 1) \o SubSeq(s, position + 1, Len(s))

(***************************************************************************)
(* escrow-vault: state records                                             *)
(***************************************************************************)
NoUserBalance == [user |-> Default, token_mint |-> Default, balance |-> 0]
NoVaultAuthority == [token_mint |-> Default, total_deposits |-> 0]

UBKeys == Users \X Tokens

\* UserBalance::credit_balance as it would be if a balance of u64::MAX could
\* not be reached
UserBalance_credit_balance_below_max(balance, amount) ==
    IF balance + amount < U64_MAX THEN balance + amount ELSE None

\* UserBalance::credit_balance / slash_balance: the new balance, or None
UserBalance_credit_balance(balance, amount) == checked_add(balance, amount)

UserBalance_slash_balance(balance, amount) ==
    IF balance >= amount THEN checked_sub(balance, amount) ELSE None

\* VaultAuthority::add_deposit / subtract_deposit: the new total, or None
add_deposit(total, amount) == checked_add(total, amount)

subtract_deposit(total, amount) ==
    IF total >= amount THEN checked_sub(total, amount) ELSE None

(***************************************************************************)
(* escrow-vault: caller detection and authorization                        *)
(***************************************************************************)
system_programs == {SYS, CB, SYSVAR}

\* A transaction as the vault sees it: the top-level instructions' program
\* ids (index 0 first), the index of the executing one, and the program that
\* really invoked the vault instruction (TopLevel when it was not a CPI).
RECURSIVE scan_instructions(_, _)
scan_instructions(tx, i) ==
    IF i < 0 THEN NoProgram
    ELSE IF i < Len(tx) /\ tx[i + 1] \notin system_programs THEN tx[i + 1]
    ELSE scan_instructions(tx, i - 1)

\* get_cpi_caller_program_id as it would be if the scan started at the current
\* instruction
get_cpi_caller_program_id_from_current(sh) == scan_instructions(sh.tx, sh.cur)

get_cpi_caller_program_id(sh) == scan_instructions(sh.tx, sh.cur + 1)

is_authorized_trader(cfg, p) == p \in Range(cfg.authorized_traders)

\* validate_cpi_caller_precise as it would be with the allow-list checked
\* before the pause flag
validate_cpi_caller_precise_list_first(cfg, caller) ==
    IF ~is_authorized_trader(cfg, caller) THEN "UnauthorizedTrader"
    ELSE IF cfg.paused THEN "VaultPaused"
    ELSE "Ok"

validate_cpi_caller_precise(cfg, caller) ==
    IF cfg.paused THEN "VaultPaused"
    ELSE IF ~is_authorized_trader(cfg, caller) THEN "UnauthorizedTrader"
    ELSE "Ok"

\* steps 1 and 2 of every privileged handler
authorize(cfg, sh) ==
    LET caller == get_cpi_caller_program_id(sh) IN
    IF caller = NoProgram THEN "FailedToLoadInstruction"
    ELSE validate_cpi_caller_precise(cfg, caller)

(***************************************************************************)
(* escrow-vault: instructions as functions of the ledger                   *)
(*                                                                         *)
(* A ledger L is [ub, va, ata, w]: the UserBalance accounts, the           *)
(* VaultAuthority accounts, the vault's token accounts and the users' own  *)
(* token accounts.  Each instruction returns [err, L]; L is the input      *)
(* ledger whenever err is not "Ok".                                        *)
(***************************************************************************)
Ledger == [ub |-> user_balance, va |-> vault_authority, ata |-> vault_ata, w |-> wallet]

Fail(e, L) == [err |-> e, L |-> L]
Done(L) == [err |-> "Ok", L |-> L]

\* deposit_collateral (accounts constraints, then handler)
deposit_collateral(cfg, L, u, t, amount) ==
    IF cfg.paused THEN Fail("VaultPaused", L)
    ELSE IF L.w[<<u, t>>] < amount THEN Fail("InsufficientBalance", L)
    ELSE IF ~(amount > 0) THEN Fail("ZeroAmount", L)
    ELSE
      LET ub0 == IF L.ub[<<u, t>>].user = Default
                 THEN [user |-> u, token_mint |-> t, balance |-> 0]
                 ELSE L.ub[<<u, t>>]
          va0 == IF L.va[t].token_mint = Default
                 THEN [token_mint |-> t, total_deposits |-> 0]
                 ELSE L.va[t]
          nb == UserBalance_credit_balance(ub0.balance, amount)
          nt == add_deposit(va0.total_deposits, amount)
      IN IF nb = None \/ nt = None THEN Fail("MathOverflow", L)
         ELSE Done([ub  |-> [L.ub EXCEPT ![<<u, t>>] = [ub0 EXCEPT !.balance = nb]],
                    va  |-> [L.va EXCEPT ![t] = [va0 EXCEPT !.total_deposits = nt]],
                    ata |-> [L.ata EXCEPT ![t] = @ + amount],
                    w   |-> [L.w EXCEPT ![<<u, t>>] = @ - amount]])

\* withdraw_collateral
withdraw_collateral(cfg, L, u, t, amount) ==
    IF L.ub[<<u, t>>].user = Default \/ L.va[t].token_mint = Default
    THEN Fail("AccountNotInitialized", L)
    ELSE IF cfg.paused THEN Fail("VaultPaused", L)
    ELSE IF L.ub[<<u, t>>].user # u THEN Fail("InvalidAccountOwner", L)
    ELSE IF ~(L.ub[<<u, t>>].balance >= amount) THEN Fail("InsufficientBalance", L)
    ELSE IF ~(amount > 0) THEN Fail("ZeroAmount", L)
    ELSE
      LET nb == UserBalance_slash_balance(L.ub[<<u, t>>].balance, amount)
          nt == subtract_deposit(L.va[t].total_deposits, amount)
      IN IF nb = None \/ nt = None THEN Fail("InsufficientBalance", L)
         ELSE IF L.ata[t] < amount THEN Fail("TokenInsufficientFunds", L)
         ELSE Done([ub  |-> [L.ub EXCEPT ![<<u, t>>].balance = nb],
                    va  |-> [L.va EXCEPT ![t].total_deposits = nt],
                    ata |-> [L.ata EXCEPT ![t] = @ - amount],
                    w   |-> [L.w EXCEPT ![<<u, t>>] = @ + amount]])

\* slash_balance as it would be with neither the balance constraint nor the
\* checks of the method, the subtraction wrapping
slash_balance_unchecked(cfg, L, acct, vam, amount, sh) ==
    IF L.ub[acct].user = Default \/ L.va[vam].token_mint = Default
    THEN Fail("AccountNotInitialized", L)
    ELSE IF L.ub[acct].token_mint # vam THEN Fail("ConstraintSeeds", L)
    ELSE IF authorize(cfg, sh) # "Ok" THEN Fail(authorize(cfg, sh), L)
    ELSE IF ~(amount > 0) THEN Fail("ZeroAmount", L)
    ELSE Done([L EXCEPT !.ub[acct].balance = (@ - amount) % (U64_MAX + 1)])

\* slash_balance: `acct` is the UserBalance account passed, `vam` the mint of
\* the VaultAuthority account passed, `sh` the transaction shape
slash_balance(cfg, L, acct, vam, amount, sh) ==
    IF L.ub[acct].user = Default \/ L.va[vam].token_mint = Default
    THEN Fail("AccountNotInitialized", L)
    ELSE IF ~(L.ub[acct].balance >= amount) THEN Fail("InsufficientBalance", L)
    ELSE IF L.ub[acct].token_mint # vam THEN Fail("ConstraintSeeds", L)
    ELSE IF authorize(cfg, sh) # "Ok" THEN Fail(authorize(cfg, sh), L)
    ELSE IF ~(amount > 0) THEN Fail("ZeroAmount", L)
    ELSE
      LET nb == UserBalance_slash_balance(L.ub[acct].balance, amount)
      IN IF nb = None THEN Fail("InsufficientBalance", L)
         ELSE Done([L EXCEPT !.ub[acct].balance = nb])

\* credit_balance as it would be if a credit also counted as a deposit
credit_balance_counting_deposit(cfg, L, acct, vam, amount, sh) ==
    IF L.ub[acct].user = Default \/ L.va[vam].token_mint = Default
    THEN Fail("AccountNotInitialized", L)
    ELSE IF L.ub[acct].token_mint # vam THEN Fail("ConstraintSeeds", L)
    ELSE IF authorize(cfg, sh) # "Ok" THEN Fail(authorize(cfg, sh), L)
    ELSE IF ~(amount > 0) THEN Fail("ZeroAmount", L)
    ELSE
      LET nb == UserBalance_credit_balance(L.ub[acct].balance, amount)
          nt == add_deposit(L.va[vam].total_deposits, amount)
      IN IF nb = None \/ nt = None THEN Fail("MathOverflow", L)
         ELSE Done([L EXCEPT !.ub[acct].balance = nb, !.va[vam].total_deposits = nt])

\* credit_balance
credit_balance(cfg, L, acct, vam, amount, sh) ==
    IF L.ub[acct].user = Default \/ L.va[vam].token_mint = Default
    THEN Fail("AccountNotInitialized", L)
    ELSE IF L.ub[acct].token_mint # vam THEN Fail("ConstraintSeeds", L)
    ELSE IF authorize(cfg, sh) # "Ok" THEN Fail(authorize(cfg, sh), L)
    ELSE IF ~(amount > 0) THEN Fail("ZeroAmount", L)
    ELSE
      LET nb == UserBalance_credit_balance(L.ub[acct].balance, amount)
      IN IF nb = None THEN Fail("MathOverflow", L)
         ELSE Done([L EXCEPT !.ub[acct].balance = nb])

\* transfer_out: `recipient` is the owner of the recipient token account
transfer_out(cfg, L, acct, vam, recipient, amount, sh) ==
    IF L.ub[acct].user = Default \/ L.va[vam].token_mint = Default
    THEN Fail("AccountNotInitialized", L)
    ELSE IF ~(L.ub[acct].balance >= amount) THEN Fail("InsufficientBalance", L)
    ELSE IF L.ub[acct].token_mint # vam THEN Fail("ConstraintSeeds", L)
    ELSE IF authorize(cfg, sh) # "Ok" THEN Fail(authorize(cfg, sh), L)
    ELSE IF ~(amount > 0) THEN Fail("ZeroAmount", L)
    ELSE IF L.ata[vam] < amount THEN Fail("TokenInsufficientFunds", L)
    ELSE
      LET nb == checked_sub(L.ub[acct].balance, amount)
      IN IF nb = None THEN Fail("ArithmeticOverflow", L)
         ELSE Done([ub  |-> [L.ub EXCEPT ![acct].balance = nb],
                    va  |-> L.va,
                    ata |-> [L.ata EXCEPT ![vam] = @ - amount],
                    w   |-> [L.w EXCEPT ![<<recipient, vam>>] = @ + amount]])

\* transfer_balance as it would be if the debit of the source stayed in place
\* when the credit of the destination fails
transfer_balance_keeping_debit(cfg, L, from_user, tf, to_user, tt, amount, sh) ==
    LET from == <<from_user, tf>>
        to == <<to_user, tt>>
    IN
    IF L.ub[from].user = Default \/ L.ub[to].user = Default
    THEN Fail("AccountNotInitialized", L)
    ELSE IF ~(L.ub[from].balance >= amount) THEN Fail("InsufficientBalance", L)
    ELSE IF L.ub[from].token_mint # L.ub[to].token_mint THEN Fail("TokenMintMismatch", L)
    ELSE IF authorize(cfg, sh) # "Ok" THEN Fail(authorize(cfg, sh), L)
    ELSE IF ~(amount > 0) THEN Fail("ZeroAmount", L)
    ELSE IF ~(from_user # to_user) THEN Fail("InvalidRecipient", L)
    ELSE
      LET nf == UserBalance_slash_balance(L.ub[from].balance, amount)
          nt == UserBalance_credit_balance(L.ub[to].balance, amount)
      IN IF nf = None THEN Fail("InsufficientBalance", L)
         ELSE IF nt = None THEN Fail("MathOverflow", [L EXCEPT !.ub[from].balance = nf])
         ELSE Done([L EXCEPT !.ub[from].balance = nf, !.ub[to].balance = nt])

\* transfer_balance: from_balance is the account <<from_user, tf>>, to_balance
\* the account <<to_user, tt>>
transfer_balance(cfg, L, from_user, tf, to_user, tt, amount, sh) ==
    LET from == <<from_user, tf>>
        to == <<to_user, tt>>
    IN
    IF L.ub[from].user = Default \/ L.ub[to].user = Default
    THEN Fail("AccountNotInitialized", L)
    ELSE IF ~(L.ub[from].balance >= amount) THEN Fail("InsufficientBalance", L)
    ELSE IF L.ub[from].token_mint # L.ub[to].token_mint THEN Fail("TokenMintMismatch", L)
    ELSE IF authorize(cfg, sh) # "Ok" THEN Fail(authorize(cfg, sh), L)
    ELSE IF ~(amount > 0) THEN Fail("ZeroAmount", L)
    ELSE IF ~(from_user # to_user) THEN Fail("InvalidRecipient", L)
    ELSE
      LET nf == UserBalance_slash_balance(L.ub[from].balance, amount)
          nt == UserBalance_credit_balance(L.ub[to].balance, amount)
      IN IF nf = None THEN Fail("InsufficientBalance", L)
         ELSE IF nt = None THEN Fail("MathOverflow", L)
         ELSE Done([L EXCEPT !.ub[from].balance = nf, !.ub[to].balance = nt])

\* add_authorized_trader as it would be if a full list accepted one more entry
add_authorized_trader_past_capacity(traders, p) ==
    IF p \in Range(traders) THEN [err |-> "TraderAlreadyAuthorized", list |-> traders]
    ELSE IF ~(Len(traders) <= MaxTraders) THEN [err |-> "MaximumTradersReached", list |-> traders]
    ELSE [err |-> "Ok", list |-> Append(traders, p)]

\* VaultConfig::add_authorized_trader / remove_authorized_trader: [err, list]
add_authorized_trader(traders, p) ==
    IF p \in Range(traders) THEN [err |-> "TraderAlreadyAuthorized", list |-> traders]
    ELSE IF ~(Len(traders) < MaxTraders) THEN [err |-> "MaximumTradersReached", list |-> traders]
    ELSE [err |-> "Ok", list |-> Append(traders, p)]

remove_authorized_trader(traders, p) ==
    IF p \notin Range(traders) THEN [err |-> "TraderNotFound", list |-> traders]
    ELSE [err |-> "Ok", list |-> Remove(traders, p)]

(***************************************************************************)
(* Observation of the last instruction                                     *)
(***************************************************************************)
\* op: the instruction; err: "Ok" or the error it failed with; signer: the
\* transaction signer the instruction checks; key: the account it was about
\* or, for a privileged vault instruction, the transaction it ran in
MkLast(op, err, signer, key) ==
    [op |-> op, err |-> err, signer |-> signer, key |-> key]

SetLedger(L) ==
    /\ user_balance' = L.ub
    /\ vault_authority' = L.va
    /\ vault_ata' = L.ata
    /\ wallet' = L.w

(***************************************************************************)
(* Transaction shapes offered to the privileged vault instructions         *)
(***************************************************************************)
Shape(tx, cur, invoker) == [tx |-> tx, cur |-> cur, invoker |-> invoker]

VaultTxShapes ==
    { Shape(<<CB, TRADE>>, 1, TRADE),      \* the trading program calls by CPI
      Shape(<<VAULT, TRADE>>, 0, TopLevel),\* a user calls the vault directly and
                                           \* a trading instruction follows
      Shape(<<EVIL>>, 0, EVIL),            \* another program calls by CPI
      Shape(<<EVIL, SYS>>, 0, EVIL) }      \* ... and a system instruction follows

(***************************************************************************)
(* escrow-vault: actions                                                   *)
(***************************************************************************)
\* manage_trader::add_handler
AddAuthorizedTrader(signer, p) ==
    LET r == add_authorized_trader(vault_config.authorized_traders, p)
        err == IF vault_config.admin # signer THEN "InvalidAdmin" ELSE r.err
    IN /\ vault_config' = IF err = "Ok"
                          THEN [vault_config EXCEPT !.authorized_traders = r.list]
                          ELSE vault_config
       /\ last' = MkLast("add_authorized_trader", err, signer, p)
       /\ UNCHANGED <<user_balance, vault_authority, vault_ata, wallet, tradeVars, clockVars>>

\* manage_trader::remove_handler
RemoveAuthorizedTrader(signer, p) ==
    LET r == remove_authorized_trader(vault_config.authorized_traders, p)
        err == IF vault_config.admin # signer THEN "InvalidAdmin" ELSE r.err
    IN /\ vault_config' = IF err = "Ok"
                          THEN [vault_config EXCEPT !.authorized_traders = r.list]
                          ELSE vault_config
       /\ last' = MkLast("remove_authorized_trader", err, signer, p)
       /\ UNCHANGED <<user_balance, vault_authority, vault_ata, wallet, tradeVars, clockVars>>

\* emergency::pause_handler
VaultPause(signer) ==
    LET err == IF vault_config.emergency_admin # signer THEN "InvalidEmergencyAdmin"
               ELSE IF vault_config.paused THEN "VaultPaused"
               ELSE "Ok"
    IN /\ vault_config' = IF err = "Ok" THEN [vault_config EXCEPT !.paused = TRUE]
                          ELSE vault_config
       /\ last' = MkLast("pause", err, signer, Default)
       /\ UNCHANGED <<user_balance, vault_authority, vault_ata, wallet, tradeVars, clockVars>>

\* emergency::unpause_handler
VaultUnpause(signer) ==
    LET err == IF vault_config.emergency_admin # signer THEN "InvalidEmergencyAdmin"
               ELSE IF ~vault_config.paused THEN "VaultNotPaused"
               ELSE "Ok"
    IN /\ vault_config' = IF err = "Ok" THEN [vault_config EXCEPT !.paused = FALSE]
                          ELSE vault_config
       /\ last' = MkLast("unpause", err, signer, Default)
       /\ UNCHANGED <<user_balance, vault_authority, vault_ata, wallet, tradeVars, clockVars>>

DepositCollateral(u, t, amount) ==
    LET r == deposit_collateral(vault_config, Ledger, u, t, amount)
    IN /\ SetLedger(r.L)
       /\ last' = MkLast("deposit", r.err, Default, Default)
       /\ UNCHANGED <<vault_config, tradeVars, clockVars>>

WithdrawCollateral(u, t, amount) ==
    LET r == withdraw_collateral(vault_config, Ledger, u, t, amount)
    IN /\ SetLedger(r.L)
       /\ last' = MkLast("withdraw", r.err, Default, Default)
       /\ UNCHANGED <<vault_config, tradeVars, clockVars>>

SlashBalance(acct, amount, sh) ==
    LET r == slash_balance(vault_config, Ledger, acct, acct[2], amount, sh)
    IN /\ SetLedger(r.L)
       /\ last' = MkLast("slash_balance", r.err, Default, sh)
       /\ UNCHANGED <<vault_config, tradeVars, clockVars>>

CreditBalance(acct, amount, sh) ==
    LET r == credit_balance(vault_config, Ledger, acct, acct[2], amount, sh)
    IN /\ SetLedger(r.L)
       /\ last' = MkLast("credit_balance", r.err, Default, sh)
       /\ UNCHANGED <<vault_config, tradeVars, clockVars>>

TransferOut(acct, recipient, amount, sh) ==
    LET r == transfer_out(vault_config, Ledger, acct, acct[2], recipient, amount, sh)
    IN /\ SetLedger(r.L)
       /\ last' = MkLast("transfer_out", r.err, Default, sh)
       /\ UNCHANGED <<vault_config, tradeVars, clockVars>>

TransferBalance(from_user, tf, to_user, tt, amount, sh) ==
    LET r == transfer_balance(vault_config, Ledger, from_user, tf, to_user, tt, amount, sh)
    IN /\ SetLedger(r.L)
       /\ last' = MkLast("transfer_balance", r.err, Default, sh)
       /\ UNCHANGED <<vault_config, tradeVars, clockVars>>

(***************************************************************************)
(* premarket-trade: state records                                          *)
(***************************************************************************)
NoneKey == "None"                          \* Option<Pubkey>::None
Markets == {"M1"}                          \* TokenMarket account addresses
TradeKeys == {"R1"}                        \* TradeRecord account addresses
Relayer == "relayer"

\* a String is the sequence of its characters
NoTokenMarket ==
    [token_id |-> Default, symbol |-> <<>>, name |-> <<>>, real_mint |-> NoneKey,
     mapping_time |-> None, settle_time_limit |-> 0, created_at |-> 0]

MAX_SYMBOL_LENGTH == 10
MAX_NAME_LENGTH == 50
\* the settle_time_limit a market may have: one hour to thirty days
MIN_SETTLE_TIME == 3600
MAX_SETTLE_TIME == 2592000

MarketSymbol == <<"O", "R", "C", "A">>
MarketName == <<"O", "r", "c", "a">>

NoTradeRecord ==
    [trade_id |-> Default, buyer |-> Default, seller |-> Default, token_id |-> Default,
     collateral_mint |-> Default, filled_amount |-> 0, price |-> 0,
     buyer_collateral |-> 0, seller_collateral |-> 0, match_time |-> 0,
     settled |-> FALSE, target_mint |-> NoneKey]

\* EconomicConfig
Econ(minfill, maxorder, bratio, sratio, reward, penalty) ==
    [minimum_fill_amount |-> minfill, maximum_order_amount |-> maxorder,
     buyer_collateral_ratio |-> bratio, seller_collateral_ratio |-> sratio,
     seller_reward_bps |-> reward, late_penalty_bps |-> penalty]

\* common.rs
PRICE_SCALE == 1000000
\* the basis-point denominator of every ratio
BPS == 10000
\* the lowest price validate_order_amounts accepts
MIN_PRICE == 1000

\* PreOrder; every order of the model is for market M1
Order(trader, is_buy, amount, price, collateral_token, deadline) ==
    [trader |-> trader, is_buy |-> is_buy, amount |-> amount, price |-> price,
     token_id |-> "M1", collateral_token |-> collateral_token, deadline |-> deadline]

NoOrderStatus ==
    [user |-> Default, original_quantity |-> 0, filled_quantity |-> 0,
     collateral_locked |-> 0, expires_at |-> 0, status |-> "Active"]

(***************************************************************************)
(* premarket-trade: pure functions                                         *)
(***************************************************************************)
\* utils::can_match_orders
can_match_orders(buy_order, sell_order) ==
    IF buy_order.token_id # sell_order.token_id THEN "TokenMintMismatch"
    ELSE IF buy_order.collateral_token # sell_order.collateral_token THEN "TokenMintMismatch"
    ELSE IF ~(buy_order.price >= sell_order.price) THEN "InvalidPrice"
    ELSE IF ~(buy_order.trader # sell_order.trader) THEN "SelfTrade"
    ELSE IF ~buy_order.is_buy THEN "InvalidOrderType"
    ELSE IF sell_order.is_buy THEN "InvalidOrderType"
    ELSE "Ok"

\* utils::verify_order_signature is imported by match_orders and cancel_order
\* but defined nowhere in the sources; it is taken to accept an order whose
\* signature is authentic and whose deadline has not passed
verify_order_signature(order, signature_ok, current_time) ==
    IF ~signature_ok THEN "InvalidSignature"
    ELSE IF ~(order.deadline > current_time) THEN "OrderExpired"
    ELSE "Ok"

\* calculate_fill_amount as it would be if the requested fill were ignored
calculate_fill_amount_ignoring_request(buy_amount, sell_amount, requested_fill) ==
    Min(buy_amount, sell_amount)

\* utils::calculate_fill_amount; requested_fill is None or Some(fill)
calculate_fill_amount(buy_amount, sell_amount, requested_fill) ==
    LET max_fill == Min(buy_amount, sell_amount)
    IN IF requested_fill # None THEN Min(requested_fill, max_fill) ELSE max_fill

\* a.checked_mul(b)?.checked_div(c)?
mul_div(a, b, c) ==
    LET m == checked_mul(a, b) IN IF m = None THEN None ELSE checked_div(m, c)

\* amount.checked_mul(price)?.checked_div(PRICE_SCALE)?
trade_value(amount, price) == mul_div(amount, price, PRICE_SCALE)

\* match_orders::calculate_collateral_requirements
calculate_collateral_requirements(amount, price, economic_config) ==
    LET tv == trade_value(amount, price)
        bc == IF tv = None THEN None
              ELSE mul_div(tv, economic_config.buyer_collateral_ratio, BPS)
        sc == IF tv = None THEN None
              ELSE mul_div(tv, economic_config.seller_collateral_ratio, BPS)
    IN IF tv = None \/ bc = None \/ sc = None
       THEN [err |-> "MathOverflow", buyer_collateral |-> 0, seller_collateral |-> 0]
       ELSE [err |-> "Ok", buyer_collateral |-> bc, seller_collateral |-> sc]

\* calculate_settlement_amounts as it would be if no reward were added
calculate_settlement_amounts_without_reward(filled_amount, price, seller_collateral, economic_config) ==
    [err |-> "Ok", seller_reward |-> 0, total_seller_release |-> seller_collateral]

\* settle_trade::calculate_settlement_amounts
calculate_settlement_amounts(filled_amount, price, seller_collateral, economic_config) ==
    LET tv == trade_value(filled_amount, price)
        seller_reward == IF tv = None THEN None
                         ELSE IF economic_config.seller_reward_bps > 0
                         THEN mul_div(tv, economic_config.seller_reward_bps, BPS)
                         ELSE 0
        total == IF seller_reward = None THEN None
                 ELSE checked_add(seller_collateral, seller_reward)
    IN IF tv = None \/ seller_reward = None \/ total = None
       THEN [err |-> "MathOverflow", seller_reward |-> 0, total_seller_release |-> 0]
       ELSE [err |-> "Ok", seller_reward |-> seller_reward, total_seller_release |-> total]

\* calculate_cancellation_amounts as it would be without the cap of the penalty
\* at seller_collateral
calculate_cancellation_amounts_uncapped(filled_amount, price, buyer_collateral, seller_collateral, economic_config) ==
    LET tv == trade_value(filled_amount, price)
        penalty_amount == IF tv = None THEN None
                          ELSE mul_div(tv, economic_config.late_penalty_bps, BPS)
        buyer_total == IF penalty_amount = None THEN None
                       ELSE checked_add(buyer_collateral, penalty_amount)
    IN IF tv = None \/ penalty_amount = None \/ buyer_total = None
       THEN [err |-> "MathOverflow", penalty |-> 0, buyer_total |-> 0, seller_remaining |-> 0]
       ELSE [err |-> "Ok", penalty |-> penalty_amount, buyer_total |-> buyer_total,
             seller_remaining |-> saturating_sub(seller_collateral, penalty_amount)]

\* cancel_trade::calculate_cancellation_amounts
calculate_cancellation_amounts(filled_amount, price, buyer_collateral, seller_collateral, economic_config) ==
    LET tv == trade_value(filled_amount, price)
        penalty_amount == IF tv = None THEN None
                          ELSE mul_div(tv, economic_config.late_penalty_bps, BPS)
        actual_penalty == IF penalty_amount = None THEN None
                          ELSE Min(penalty_amount, seller_collateral)
        buyer_total == IF actual_penalty = None THEN None
                       ELSE checked_add(buyer_collateral, actual_penalty)
    IN IF tv = None \/ penalty_amount = None \/ buyer_total = None
       THEN [err |-> "MathOverflow", penalty |-> 0, buyer_total |-> 0, seller_remaining |-> 0]
       ELSE [err |-> "Ok", penalty |-> actual_penalty, buyer_total |-> buyer_total,
             seller_remaining |-> saturating_sub(seller_collateral, actual_penalty)]

\* common::safe_calculate_collateral: the collateral, or None
safe_calculate_collateral(amount, price, ratio) ==
    LET tv == mul_div(amount, price, PRICE_SCALE)
    IN IF tv = None THEN None ELSE mul_div(tv, ratio, BPS)

\* cancel_order::calculate_order_collateral: the collateral, or None
calculate_order_collateral(amount, price, is_buy, economic_config) ==
    LET tv == trade_value(amount, price)
        collateral_ratio == IF is_buy THEN economic_config.buyer_collateral_ratio
                            ELSE economic_config.seller_collateral_ratio
    IN IF tv = None THEN None ELSE mul_div(tv, collateral_ratio, BPS)

\* OrderStatus::remaining_quantity / can_fill / is_expired
remaining_quantity(os) == saturating_sub(os.original_quantity, os.filled_quantity)

can_fill(os, current_time) ==
    /\ os.status \in {"Active", "PartiallyFilled"}
    /\ current_time <= os.expires_at
    /\ remaining_quantity(os) > 0

is_expired(os, current_time) == current_time > os.expires_at

\* OrderStatus::fill_order as it would be without the check against the
\* remaining quantity
fill_order_past_remaining(os, fill_quantity, current_time) ==
    IF ~can_fill(os, current_time) THEN [err |-> "OrderExpired", os |-> os]
    ELSE
      LET filled == checked_add(os.filled_quantity, fill_quantity)
      IN IF filled = None THEN [err |-> "MathOverflow", os |-> os]
         ELSE [err |-> "Ok",
               os |-> [os EXCEPT !.filled_quantity = filled,
                                 !.status = IF filled >= os.original_quantity
                                            THEN "Filled" ELSE "PartiallyFilled"]]

\* OrderStatus::fill_order: [err, os]
fill_order(os, fill_quantity, current_time) ==
    IF ~can_fill(os, current_time) THEN [err |-> "OrderExpired", os |-> os]
    ELSE IF ~(fill_quantity <= remaining_quantity(os))
         THEN [err |-> "ExceedOrderAmount", os |-> os]
    ELSE
      LET filled == checked_add(os.filled_quantity, fill_quantity)
      IN IF filled = None THEN [err |-> "MathOverflow", os |-> os]
         ELSE [err |-> "Ok",
               os |-> [os EXCEPT !.filled_quantity = filled,
                                 !.status = IF filled >= os.original_quantity
                                            THEN "Filled" ELSE "PartiallyFilled"]]

\* OrderStatus::cancel_order: [err, os]
OrderStatus_cancel_order(os) ==
    IF os.status \notin {"Active", "PartiallyFilled"}
    THEN [err |-> "OrderAlreadyFilled", os |-> os]
    ELSE [err |-> "Ok", os |-> [os EXCEPT !.status = "Cancelled"]]

\* OrderStatus::mark_expired: [err, os]
mark_expired(os, current_time) ==
    IF ~is_expired(os, current_time) THEN [err |-> "OrderNotFound", os |-> os]
    ELSE [err |-> "Ok", os |-> [os EXCEPT !.status = "Expired"]]

\* str::trim: the string without its leading and trailing spaces
RECURSIVE trim_start(_)
trim_start(str) ==
    IF str # <<>> /\ Head(str) = " " THEN trim_start(Tail(str)) ELSE str

RECURSIVE trim_end(_)
trim_end(str) ==
    IF str # <<>> /\ str[Len(str)] = " " THEN trim_end(SubSeq(str, 1, Len(str) - 1)) ELSE str

trim(str) == trim_end(trim_start(str))

\* TradeConfig::is_relayer
is_relayer(cfg, k) == k \in Range(cfg.relayers)

(***************************************************************************)
(* premarket-trade: instructions as functions of the state                 *)
(*                                                                         *)
(* `ctx` holds the accounts the caller passes.  The balance accounts are   *)
(* unchecked AccountInfo in the Accounts structs, so they are whatever     *)
(* UserBalance the caller names; `tx` is the shape of the transaction.     *)
(* Each instruction returns err, the ledger and the record it writes.      *)
(***************************************************************************)
TFail(e, rec) == [err |-> e, L |-> Ledger, rec |-> rec]

\* the MatchOrders constraints as they would be without the relayer check
MatchOrders_constraints_any_signer(ctx) ==
    IF token_market[ctx.token_market].token_id = Default THEN "AccountNotInitialized"
    ELSE IF trade_config.paused THEN "TradingPaused"
    ELSE "Ok"

\* the constraints of the MatchOrders accounts, in declaration order
MatchOrders_constraints(ctx) ==
    IF token_market[ctx.token_market].token_id = Default THEN "AccountNotInitialized"
    ELSE IF ~is_relayer(trade_config, ctx.relayer) THEN "UnauthorizedRelayer"
    ELSE IF trade_config.paused THEN "TradingPaused"
    ELSE "Ok"

\* manage_relayers (accounts constraints, then handler): [err, relayers]
manage_relayers(cfg, signer, relayer, add) ==
    LET keep(e) == [err |-> e, relayers |-> cfg.relayers]
    IN
    IF cfg.admin # signer THEN keep("InvalidAdmin")
    ELSE IF cfg.paused THEN keep("TradingPaused")
    ELSE IF ~(relayer # Default) THEN keep("InvalidTokenAddress")
    ELSE IF add
      THEN IF is_relayer(cfg, relayer) THEN keep("TooManyRelayers")
           ELSE IF ~(Len(cfg.relayers) < 10) THEN keep("TooManyRelayers")
           ELSE [err |-> "Ok", relayers |-> Append(cfg.relayers, relayer)]
      ELSE IF ~is_relayer(cfg, relayer) THEN keep("UnauthorizedRelayer")
           ELSE [err |-> "Ok", relayers |-> Remove(cfg.relayers, relayer)]

\* common.rs: the ceilings of the economic parameters
MAX_COLLATERAL_RATIO == 20000
MAX_REWARD_BPS == 1000
MAX_PENALTY_BPS == 10000
\* the ceiling of maximum_order_amount (1e15 in the source), scaled as U64_MAX is
MaxOrderAmountCeiling == 1000000

\* update_config::validate_economic_config: "Ok" or the error of the first
\* requirement that fails
validate_economic_config(config) ==
    IF ~(config.buyer_collateral_ratio <= MAX_COLLATERAL_RATIO) THEN "InvalidCollateralRatio"
    ELSE IF ~(config.seller_collateral_ratio <= MAX_COLLATERAL_RATIO) THEN "InvalidCollateralRatio"
    ELSE IF ~(config.seller_reward_bps <= MAX_REWARD_BPS) THEN "InvalidRewardParameters"
    ELSE IF ~(config.late_penalty_bps <= MAX_PENALTY_BPS) THEN "InvalidRewardParameters"
    ELSE IF ~(config.minimum_fill_amount > 0) THEN "ZeroAmount"
    ELSE IF ~(config.maximum_order_amount > config.minimum_fill_amount) THEN "InvalidFillAmount"
    ELSE IF ~(config.maximum_order_amount <= MaxOrderAmountCeiling) THEN "ExceedOrderAmount"
    ELSE "Ok"

\* the TradeConfig PDA before initialize_trading
NoTradeConfig ==
    [admin |-> Default, vault_program |-> Default, relayers |-> <<>>,
     economic_config |-> Econ(0, 0, 0, 0, 0, 0), paused |-> FALSE]

\* initialize_trading: `init` refuses an account that exists: [err, cfg]
initialize_trading(cfg, signer, vault_program, economic_config) ==
    IF cfg.admin # Default THEN [err |-> "AccountAlreadyInUse", cfg |-> cfg]
    ELSE [err |-> "Ok",
          cfg |-> [admin |-> signer, vault_program |-> vault_program, relayers |-> <<>>,
                   economic_config |-> economic_config, paused |-> FALSE]]

\* update_economic_config (accounts constraints, then handler): [err, cfg]
update_economic_config(cfg, signer, new_config) ==
    LET keep(e) == [err |-> e, cfg |-> cfg]
    IN
    IF cfg.admin = Default THEN keep("AccountNotInitialized")
    ELSE IF cfg.admin # signer THEN keep("InvalidAdmin")
    ELSE IF cfg.paused THEN keep("TradingPaused")
    ELSE IF validate_economic_config(new_config) # "Ok"
         THEN keep(validate_economic_config(new_config))
    ELSE [err |-> "Ok", cfg |-> [cfg EXCEPT !.economic_config = new_config]]

\* create_token_market (accounts constraints, then handler) on the account at
\* `key`, which init_if_needed creates when it does not exist: [err, mkt]
create_token_market(cfg, mkt, key, signer, symbol, name, settle_time_limit, current_time) ==
    LET keep(e) == [err |-> e, mkt |-> mkt]
    IN
    IF ~(Len(symbol) <= MAX_SYMBOL_LENGTH) THEN keep("SymbolTooLong")
    ELSE IF ~(Len(name) <= MAX_NAME_LENGTH) THEN keep("NameTooLong")
    ELSE IF ~(settle_time_limit >= MIN_SETTLE_TIME) THEN keep("InvalidSettleTime")
    ELSE IF ~(settle_time_limit <= MAX_SETTLE_TIME) THEN keep("InvalidSettleTime")
    ELSE IF cfg.admin # signer THEN keep("InvalidAdmin")
    ELSE IF cfg.paused THEN keep("TradingPaused")
    ELSE IF ~(Len(trim(symbol)) > 0) THEN keep("SymbolTooLong")
    ELSE IF ~(Len(trim(name)) > 0) THEN keep("NameTooLong")
    ELSE [err |-> "Ok",
          mkt |-> [token_id |-> key, symbol |-> symbol, name |-> name,
                   real_mint |-> NoneKey, mapping_time |-> None,
                   settle_time_limit |-> settle_time_limit, created_at |-> current_time]]

\* map_token (accounts constraints, then handler): real_mint is the
\* instruction argument, real_mint_account the mint account passed: [err, mkt]
map_token(cfg, mkt, key, signer, real_mint, real_mint_account, current_time) ==
    LET keep(e) == [err |-> e, mkt |-> mkt]
    IN
    IF mkt.token_id = Default THEN keep("AccountNotInitialized")
    ELSE IF ~(mkt.real_mint = NoneKey) THEN keep("TokenAlreadyMapped")
    ELSE IF cfg.admin # signer THEN keep("InvalidAdmin")
    ELSE IF cfg.paused THEN keep("TradingPaused")
    ELSE IF ~(real_mint = real_mint_account) THEN keep("InvalidTokenMint")
    ELSE IF ~(mkt.token_id = key) THEN keep("InvalidTokenAddress")
    ELSE [err |-> "Ok", mkt |-> [mkt EXCEPT !.real_mint = real_mint,
                                            !.mapping_time = current_time]]

\* match_orders (accounts constraints, then handler)
match_orders(ctx, buy_order, sell_order, buy_signature_ok, sell_signature_ok, fill_amount) ==
    LET rec == trade_record[ctx.trade_record]
        economic_config == trade_config.economic_config
        cm == can_match_orders(buy_order, sell_order)
        vb == verify_order_signature(buy_order, buy_signature_ok, now)
        vs == verify_order_signature(sell_order, sell_signature_ok, now)
        actual_fill_amount ==
            calculate_fill_amount(buy_order.amount, sell_order.amount, fill_amount)
        c == calculate_collateral_requirements(actual_fill_amount, buy_order.price,
                                               economic_config)
        lock_buyer == slash_balance(vault_config, Ledger, ctx.buyer_balance,
                                    ctx.collateral_mint, c.buyer_collateral, ctx.tx)
        lock_seller == slash_balance(vault_config, lock_buyer.L, ctx.seller_balance,
                                     ctx.collateral_mint, c.seller_collateral, ctx.tx)
    IN
    IF MatchOrders_constraints(ctx) # "Ok" THEN TFail(MatchOrders_constraints(ctx), rec)
    ELSE IF cm # "Ok" THEN TFail(cm, rec)
    ELSE IF buy_order.token_id # ctx.token_market THEN TFail("TokenMintMismatch", rec)
    ELSE IF sell_order.token_id # ctx.token_market THEN TFail("TokenMintMismatch", rec)
    ELSE IF vb # "Ok" THEN TFail(vb, rec)
    ELSE IF vs # "Ok" THEN TFail(vs, rec)
    ELSE IF ~(actual_fill_amount > 0) THEN TFail("ZeroAmount", rec)
    ELSE IF ~(actual_fill_amount >= economic_config.minimum_fill_amount)
         THEN TFail("BelowMinimumFill", rec)
    ELSE IF c.err # "Ok" THEN TFail(c.err, rec)
    ELSE IF buy_order.collateral_token # ctx.collateral_mint THEN TFail("TokenMintMismatch", rec)
    ELSE IF sell_order.collateral_token # ctx.collateral_mint THEN TFail("TokenMintMismatch", rec)
    ELSE IF lock_buyer.err # "Ok" THEN TFail(lock_buyer.err, rec)
    ELSE IF lock_seller.err # "Ok" THEN TFail(lock_seller.err, rec)
    ELSE [err |-> "Ok", L |-> lock_seller.L,
          rec |-> [trade_id |-> ctx.trade_record, buyer |-> buy_order.trader,
                   seller |-> sell_order.trader, token_id |-> ctx.token_market,
                   collateral_mint |-> buy_order.collateral_token,
                   filled_amount |-> actual_fill_amount, price |-> buy_order.price,
                   buyer_collateral |-> c.buyer_collateral,
                   seller_collateral |-> c.seller_collateral,
                   match_time |-> now, settled |-> FALSE, target_mint |-> NoneKey]]

\* the SettleTrade constraints as they would be with the seller check placed
\* before the settled check
SettleTrade_constraints_seller_first(ctx) ==
    LET rec == trade_record[ctx.trade_record]
        mkt == token_market[ctx.token_market]
    IN
    IF rec.trade_id = Default \/ mkt.token_id = Default THEN "AccountNotInitialized"
    ELSE IF rec.seller # ctx.seller THEN "OnlySellerCanSettle"
    ELSE IF rec.settled THEN "TradeAlreadySettled"
    ELSE IF mkt.token_id # rec.token_id THEN "TokenMintMismatch"
    ELSE IF mkt.real_mint = NoneKey THEN "TokenNotMapped"
    ELSE IF trade_config.paused THEN "TradingPaused"
    ELSE "Ok"

\* the constraints of the SettleTrade accounts, in declaration order: "Ok" or
\* the error of the first one that fails
SettleTrade_constraints(ctx) ==
    LET rec == trade_record[ctx.trade_record]
        mkt == token_market[ctx.token_market]
    IN
    IF rec.trade_id = Default \/ mkt.token_id = Default THEN "AccountNotInitialized"
    ELSE IF rec.settled THEN "TradeAlreadySettled"
    ELSE IF rec.seller # ctx.seller THEN "OnlySellerCanSettle"
    ELSE IF mkt.token_id # rec.token_id THEN "TokenMintMismatch"
    ELSE IF mkt.real_mint = NoneKey THEN "TokenNotMapped"
    ELSE IF trade_config.paused THEN "TradingPaused"
    ELSE "Ok"

\* settle_trade handler: require!(current_time <= grace_period_end)
settle_time_check(current_time, grace_period_end) == current_time <= grace_period_end

\* settle_trade (accounts constraints in declaration order, then handler)
settle_trade(ctx) ==
    LET rec == trade_record[ctx.trade_record]
        mkt == token_market[ctx.token_market]
        grace_period_end == rec.match_time + mkt.settle_time_limit
        s == calculate_settlement_amounts(rec.filled_amount, rec.price,
                                          rec.seller_collateral, trade_config.economic_config)
        delivered == [Ledger EXCEPT !.w[<<ctx.seller, mkt.real_mint>>] = @ - rec.filled_amount,
                                    !.w[<<rec.buyer, mkt.real_mint>>] = @ + rec.filled_amount]
        release == IF s.total_seller_release > 0
                   THEN transfer_out(vault_config, delivered, ctx.seller_balance,
                                     rec.collateral_mint, ctx.seller,
                                     s.total_seller_release, ctx.tx)
                   ELSE Done(delivered)
    IN
    IF SettleTrade_constraints(ctx) # "Ok" THEN TFail(SettleTrade_constraints(ctx), rec)
    ELSE IF ~settle_time_check(now, grace_period_end) THEN TFail("GracePeriodExpired", rec)
    ELSE IF ~(wallet[<<ctx.seller, mkt.real_mint>>] >= rec.filled_amount)
         THEN TFail("InsufficientBalance", rec)
    ELSE IF s.err # "Ok" THEN TFail(s.err, rec)
    ELSE IF release.err # "Ok" THEN TFail(release.err, rec)
    ELSE [err |-> "Ok", L |-> release.L, rec |-> [rec EXCEPT !.settled = TRUE]]

\* the CancelTrade constraints as they would be without the buyer check
CancelTrade_constraints_any_signer(ctx) ==
    LET rec == trade_record[ctx.trade_record]
        mkt == token_market[ctx.token_market]
    IN
    IF rec.trade_id = Default \/ mkt.token_id = Default THEN "AccountNotInitialized"
    ELSE IF rec.settled THEN "TradeAlreadySettled"
    ELSE IF mkt.token_id # rec.token_id THEN "TokenMintMismatch"
    ELSE IF trade_config.paused THEN "TradingPaused"
    ELSE "Ok"

\* the constraints of the CancelTrade accounts, in declaration order
CancelTrade_constraints(ctx) ==
    LET rec == trade_record[ctx.trade_record]
        mkt == token_market[ctx.token_market]
    IN
    IF rec.trade_id = Default \/ mkt.token_id = Default THEN "AccountNotInitialized"
    ELSE IF rec.settled THEN "TradeAlreadySettled"
    ELSE IF rec.buyer # ctx.buyer THEN "OnlyBuyerCanCancel"
    ELSE IF mkt.token_id # rec.token_id THEN "TokenMintMismatch"
    ELSE IF trade_config.paused THEN "TradingPaused"
    ELSE "Ok"

\* the cancel time check as it would be if cancelling were allowed at the deadline
cancel_time_check_at_deadline(current_time, grace_period_end) ==
    current_time >= grace_period_end

\* cancel_trade handler: require!(current_time > grace_period_end)
cancel_time_check(current_time, grace_period_end) == current_time > grace_period_end

\* cancel_trade (accounts constraints in declaration order, then handler).  The
\* two CPIs are vault transfer_out calls: buyer_total out of buyer_balance to
\* the buyer's wallet, seller_remaining out of seller_balance to the seller's.
cancel_trade(ctx) ==
    LET rec == trade_record[ctx.trade_record]
        mkt == token_market[ctx.token_market]
        grace_period_end == rec.match_time + mkt.settle_time_limit
        c == calculate_cancellation_amounts(rec.filled_amount, rec.price,
                                            rec.buyer_collateral, rec.seller_collateral,
                                            trade_config.economic_config)
        to_buyer == IF c.buyer_total > 0
                    THEN transfer_out(vault_config, Ledger, ctx.buyer_balance,
                                      rec.collateral_mint, ctx.buyer, c.buyer_total, ctx.tx)
                    ELSE Done(Ledger)
        to_seller == IF c.seller_remaining > 0
                     THEN transfer_out(vault_config, to_buyer.L, ctx.seller_balance,
                                       rec.collateral_mint, rec.seller,
                                       c.seller_remaining, ctx.tx)
                     ELSE Done(to_buyer.L)
    IN
    IF CancelTrade_constraints(ctx) # "Ok" THEN TFail(CancelTrade_constraints(ctx), rec)
    ELSE IF ~cancel_time_check(now, grace_period_end) THEN TFail("GracePeriodActive", rec)
    ELSE IF c.err # "Ok" THEN TFail(c.err, rec)
    ELSE IF to_buyer.err # "Ok" THEN TFail(to_buyer.err, rec)
    ELSE IF to_seller.err # "Ok" THEN TFail(to_seller.err, rec)
    ELSE [err |-> "Ok", L |-> to_seller.L, rec |-> [rec EXCEPT !.settled = TRUE]]

\* cancel_order as it would be if the status of the record were left as it was
cancel_order_leaving_status(ctx, order, signature_ok) ==
    LET os == order_status[order]
        mkt == token_market[ctx.token_market]
        economic_config == trade_config.economic_config
        v == verify_order_signature(order, signature_ok, now)
        locked == calculate_order_collateral(order.amount, order.price, order.is_buy,
                                             economic_config)
        os1 == IF os.user = Default
               THEN [user |-> order.trader, original_quantity |-> order.amount,
                     filled_quantity |-> 0, collateral_locked |-> locked,
                     expires_at |-> order.deadline, status |-> "Active"]
               ELSE os
        remaining_amount == os1.original_quantity - os1.filled_quantity
        collateral_to_unlock == calculate_order_collateral(remaining_amount, order.price,
                                                           order.is_buy, economic_config)
        unlock == IF collateral_to_unlock > 0
                  THEN credit_balance(vault_config, Ledger, ctx.trader_balance,
                                      order.collateral_token, collateral_to_unlock, ctx.tx)
                  ELSE Done(Ledger)
    IN
    IF mkt.token_id = Default THEN TFail("AccountNotInitialized", os)
    ELSE IF mkt.token_id # order.token_id THEN TFail("TokenMintMismatch", os)
    ELSE IF trade_config.paused THEN TFail("TradingPaused", os)
    ELSE IF ctx.trader # order.trader THEN TFail("InvalidOrderOwner", os)
    ELSE IF v # "Ok" THEN TFail(v, os)
    ELSE IF ~(now <= order.deadline) THEN TFail("OrderExpired", os)
    ELSE IF os.user = Default /\ locked = None THEN TFail("MathOverflow", os)
    ELSE IF os1.status = "Cancelled" THEN TFail("OrderAlreadyCancelled", os)
    ELSE IF ~(os1.filled_quantity < os1.original_quantity) THEN TFail("OrderAlreadyFilled", os)
    ELSE IF collateral_to_unlock = None THEN TFail("MathOverflow", os)
    ELSE IF os1.status \notin {"Active", "PartiallyFilled"} THEN TFail("OrderAlreadyFilled", os)
    ELSE IF unlock.err # "Ok" THEN TFail(unlock.err, os)
    ELSE [err |-> "Ok", L |-> unlock.L, rec |-> os1]

\* cancel_order (accounts constraints, then handler); the record written is
\* the OrderStatus PDA of the order
cancel_order(ctx, order, signature_ok) ==
    LET os == order_status[order]
        mkt == token_market[ctx.token_market]
        economic_config == trade_config.economic_config
        v == verify_order_signature(order, signature_ok, now)
        locked == calculate_order_collateral(order.amount, order.price, order.is_buy,
                                             economic_config)
        os1 == IF os.user = Default
               THEN [user |-> order.trader, original_quantity |-> order.amount,
                     filled_quantity |-> 0, collateral_locked |-> locked,
                     expires_at |-> order.deadline, status |-> "Active"]
               ELSE os
        remaining_amount == os1.original_quantity - os1.filled_quantity
        collateral_to_unlock == calculate_order_collateral(remaining_amount, order.price,
                                                           order.is_buy, economic_config)
        unlock == IF collateral_to_unlock > 0
                  THEN credit_balance(vault_config, Ledger, ctx.trader_balance,
                                      order.collateral_token, collateral_to_unlock, ctx.tx)
                  ELSE Done(Ledger)
    IN
    IF mkt.token_id = Default THEN TFail("AccountNotInitialized", os)
    ELSE IF mkt.token_id # order.token_id THEN TFail("TokenMintMismatch", os)
    ELSE IF trade_config.paused THEN TFail("TradingPaused", os)
    ELSE IF ctx.trader # order.trader THEN TFail("InvalidOrderOwner", os)
    ELSE IF v # "Ok" THEN TFail(v, os)
    ELSE IF ~(now <= order.deadline) THEN TFail("OrderExpired", os)
    ELSE IF os.user = Default /\ locked = None THEN TFail("MathOverflow", os)
    ELSE IF os1.status = "Cancelled" THEN TFail("OrderAlreadyCancelled", os)
    ELSE IF ~(os1.filled_quantity < os1.original_quantity) THEN TFail("OrderAlreadyFilled", os)
    ELSE IF collateral_to_unlock = None THEN TFail("MathOverflow", os)
    ELSE IF os1.status \notin {"Active", "PartiallyFilled"} THEN TFail("OrderAlreadyFilled", os)
    ELSE IF unlock.err # "Ok" THEN TFail(unlock.err, os)
    ELSE [err |-> "Ok", L |-> unlock.L, rec |-> [os1 EXCEPT !.status = "Cancelled"]]

(***************************************************************************)
(* premarket-trade: actions                                                *)
(***************************************************************************)
MatchOrders(ctx, buy_order, sell_order, fill_amount) ==
    LET r == match_orders(ctx, buy_order, sell_order, TRUE, TRUE, fill_amount)
    IN /\ SetLedger(r.L)
       /\ trade_record' = [trade_record EXCEPT ![ctx.trade_record] = r.rec]
       /\ last' = MkLast("match_orders", r.err, ctx.relayer, ctx.trade_record)
       /\ UNCHANGED <<vault_config, trade_config, token_market, order_status, clockVars>>

SettleTrade(ctx) ==
    LET r == settle_trade(ctx)
    IN /\ SetLedger(r.L)
       /\ trade_record' = [trade_record EXCEPT ![ctx.trade_record] = r.rec]
       /\ last' = MkLast("settle_trade", r.err, ctx.seller, ctx.trade_record)
       /\ UNCHANGED <<vault_config, trade_config, token_market, order_status, clockVars>>

CancelTrade(ctx) ==
    LET r == cancel_trade(ctx)
    IN /\ SetLedger(r.L)
       /\ trade_record' = [trade_record EXCEPT ![ctx.trade_record] = r.rec]
       /\ last' = MkLast("cancel_trade", r.err, ctx.buyer, ctx.trade_record)
       /\ UNCHANGED <<vault_config, trade_config, token_market, order_status, clockVars>>

CancelOrder(ctx, order) ==
    LET r == cancel_order(ctx, order, TRUE)
    IN /\ SetLedger(r.L)
       /\ order_status' = [order_status EXCEPT ![order] = r.rec]
       /\ last' = MkLast("cancel_order", r.err, ctx.trader, Default)
       /\ UNCHANGED <<vault_config, trade_config, token_market, trade_record, clockVars>>

CreateTokenMarket(signer, key, symbol, name, settle_time_limit) ==
    LET r == create_token_market(trade_config, token_market[key], key, signer, symbol, name,
                                 settle_time_limit, now)
    IN /\ token_market' = [token_market EXCEPT ![key] = r.mkt]
       /\ last' = MkLast("create_token_market", r.err, signer, key)
       /\ UNCHANGED <<vaultVars, trade_config, trade_record, order_status, clockVars>>

MapToken(signer, key, real_mint, real_mint_account) ==
    LET r == map_token(trade_config, token_market[key], key, signer, real_mint,
                       real_mint_account, now)
    IN /\ token_market' = [token_market EXCEPT ![key] = r.mkt]
       /\ last' = MkLast("map_token", r.err, signer, key)
       /\ UNCHANGED <<vaultVars, trade_config, trade_record, order_status, clockVars>>

InitializeTrading(signer, vault_program, economic_config) ==
    LET r == initialize_trading(trade_config, signer, vault_program, economic_config)
    IN /\ trade_config' = r.cfg
       /\ last' = MkLast("initialize_trading", r.err, signer, economic_config)
       /\ UNCHANGED <<vaultVars, token_market, trade_record, order_status, clockVars>>

UpdateEconomicConfig(signer, new_config) ==
    LET r == update_economic_config(trade_config, signer, new_config)
    IN /\ trade_config' = r.cfg
       /\ last' = MkLast("update_economic_config", r.err, signer, new_config)
       /\ UNCHANGED <<vaultVars, token_market, trade_record, order_status, clockVars>>

\* manage_relayers: add_relayer when add, remove_relayer otherwise
ManageRelayers(signer, relayer, add) ==
    LET r == manage_relayers(trade_config, signer, relayer, add)
    IN /\ trade_config' = [trade_config EXCEPT !.relayers = r.relayers]
       /\ last' = MkLast(IF add THEN "add_relayer" ELSE "remove_relayer", r.err, signer, relayer)
       /\ UNCHANGED <<vaultVars, token_market, trade_record, order_status, clockVars>>

\* emergency::pause_handler of the trading program
TradePause(signer) ==
    LET err == IF trade_config.admin # signer THEN "InvalidAdmin"
               ELSE IF trade_config.paused THEN "TradingPaused"
               ELSE "Ok"
    IN /\ trade_config' = IF err = "Ok" THEN [trade_config EXCEPT !.paused = TRUE]
                          ELSE trade_config
       /\ last' = MkLast("pause", err, signer, Default)
       /\ UNCHANGED <<vaultVars, token_market, trade_record, order_status, clockVars>>

\* emergency::unpause_handler of the trading program
TradeUnpause(signer) ==
    LET err == IF trade_config.admin # signer THEN "InvalidAdmin"
               ELSE IF ~trade_config.paused THEN "TradingNotActive"
               ELSE "Ok"
    IN /\ trade_config' = IF err = "Ok" THEN [trade_config EXCEPT !.paused = FALSE]
                          ELSE trade_config
       /\ last' = MkLast("unpause", err, signer, Default)
       /\ UNCHANGED <<vaultVars, token_market, trade_record, order_status, clockVars>>

\* the clock advances between transactions
Tick(d) ==
    /\ now' = now + d
    /\ ticks' = ticks + 1
    /\ last' = MkLast("tick", "Ok", Default, Default)
    /\ UNCHANGED <<vaultVars, tradeVars>>

\* the orders of the model: a crossing pair at prices near 1.0, and the pair
\* (price 100, qty 50) / (price 90, qty 80)
OrderDeadline == 100000
BuyOrder == Order("u1", TRUE, 2, 1000000, "USDC", OrderDeadline)
SellOrder == Order("u2", FALSE, 3, 900000, "USDC", OrderDeadline)
ScenarioBuy == Order("u1", TRUE, 50, 100, "USDC", OrderDeadline)
ScenarioSell == Order("u2", FALSE, 80, 90, "USDC", OrderDeadline)
Orders == {BuyOrder, SellOrder, ScenarioBuy, ScenarioSell}
OrderPairs == {<<BuyOrder, SellOrder>>, <<ScenarioBuy, ScenarioSell>>}
FillOverrides == {None, 1}                 \* Option<u64>: None or Some(1)

(***************************************************************************)
(* Initial states                                                          *)
(***************************************************************************)
InitialWallet == 1                         \* tokens each user holds of each mint
MaxBalance == 2                            \* cap on the balances of one token, summed
MaxTotalDeposits == 2                      \* cap on VaultAuthority.total_deposits

\* after initialize_vault(admin, emergency_admin)
VaultInit ==
    /\ vault_config = [admin |-> Admin, emergency_admin |-> EmergencyAdmin,
                       paused |-> FALSE, authorized_traders |-> <<>>]
    /\ user_balance = [k \in UBKeys |-> NoUserBalance]
    /\ vault_authority = [t \in Tokens |-> NoVaultAuthority]
    /\ vault_ata = [t \in Tokens |-> 0]

\* after initialize_trading(vault_program, economic_config, technical_config)
TradeInit(econ) ==
    /\ trade_config = [admin |-> Admin, vault_program |-> VAULT, relayers |-> <<>>,
                       economic_config |-> econ, paused |-> FALSE]
    /\ token_market = [m \in Markets |-> NoTokenMarket]
    /\ trade_record = [k \in TradeKeys |-> NoTradeRecord]
    /\ order_status = [o \in Orders |-> NoOrderStatus]

ClockInit == now = 0 /\ ticks = 0

NoLast == MkLast("init", "Ok", Default, Default)

(***************************************************************************)
(* The vault on its own: every vault instruction, any caller               *)
(***************************************************************************)
VaultUsers == {"u1", "u2"}
VaultAmounts == 0..InitialWallet

InitVault ==
    /\ VaultInit
    /\ wallet = [k \in Users \X Mints |-> IF k[1] \in VaultUsers /\ k[2] \in Tokens
                                           THEN InitialWallet ELSE 0]
    /\ TradeInit(Econ(1, 100, 10000, 10000, 0, 10000))
    /\ ClockInit
    /\ last = NoLast

(***************************************************************************)
(* Sums over the ledger                                                    *)
(***************************************************************************)
RECURSIVE SumOver(_, _)
SumOver(S, f) ==
    IF S = {} THEN 0
    ELSE LET x == CHOOSE y \in S : TRUE IN f[x] + SumOver(S \ {x}, f)

\* the sum of UserBalance.balance over all users of token t
SumBalances(t) == SumOver(Users, [u \in Users |-> user_balance[<<u, t>>].balance])

CreditInBound(acct, a) == SumBalances(acct[2]) + a <= MaxBalance
DepositInBound(t, a) == vault_authority[t].total_deposits + a <= MaxTotalDeposits

NextVault ==
    \/ \E signer \in {Admin, "u1"} : AddAuthorizedTrader(signer, TRADE)
    \/ \E signer \in {Admin, "u1"} : RemoveAuthorizedTrader(signer, TRADE)
    \/ \E u \in VaultUsers, a \in VaultAmounts :
          DepositInBound("USDC", a) /\ DepositCollateral(u, "USDC", a)
    \/ \E u \in VaultUsers, a \in VaultAmounts : WithdrawCollateral(u, "USDC", a)
    \/ \E u \in VaultUsers, a \in VaultAmounts, sh \in VaultTxShapes :
          SlashBalance(<<u, "USDC">>, a, sh)
    \/ \E u \in VaultUsers, a \in VaultAmounts, sh \in VaultTxShapes :
          CreditInBound(<<u, "USDC">>, a) /\ CreditBalance(<<u, "USDC">>, a, sh)
    \/ \E u \in VaultUsers, r \in VaultUsers, a \in VaultAmounts, sh \in VaultTxShapes :
          TransferOut(<<u, "USDC">>, r, a, sh)
    \/ \E fu \in VaultUsers, tu \in VaultUsers, tt \in Tokens, a \in VaultAmounts,
          sh \in VaultTxShapes : TransferBalance(fu, "USDC", tu, tt, a, sh)

SpecVault == InitVault /\ [][NextVault]_vars

(***************************************************************************)
(* The trade lifecycle: match, settle, cancel after the deadline           *)
(***************************************************************************)
SettleTimeLimit == 3600                    \* TokenMarket.settle_time_limit, seconds
TradeBalance == 6                          \* what each party has deposited
RealTokens == 2                            \* real tokens the seller holds

Parties == {"u1", "u2"}
ClockSteps == {1, SettleTimeLimit}
\* the clock readings after time 0: the deadline of a trade matched at time 0,
\* and one second later
ClockValues == {SettleTimeLimit, SettleTimeLimit + 1}

\* the trading program calls the vault by CPI, after a compute-budget instruction
TradeShape == Shape(<<CB, TRADE>>, 1, TRADE)

\* 100% / 100% collateral with a 50% penalty; 100% / 50% with a 100% penalty;
\* 100% / 100% with a 50% seller reward and a 50% penalty
EconConfigs == { Econ(1, 100, 10000, 10000, 0, 5000),
                 Econ(1, 100, 10000, 5000, 0, 10000),
                 Econ(1, 100, 10000, 10000, 5000, 5000) }

\* after initialize_vault, add_authorized_trader(premarket_trade), a deposit of
\* TradeBalance by each party, initialize_trading, add_relayer,
\* create_token_market and map_token; `usdc` is what each party keeps in their wallet
LifecycleInit(econ, usdc) ==
    /\ vault_config = [admin |-> Admin, emergency_admin |-> EmergencyAdmin,
                       paused |-> FALSE, authorized_traders |-> <<TRADE>>]
    /\ user_balance = [k \in UBKeys |->
                          IF k[1] \in Parties /\ k[2] = "USDC"
                          THEN [user |-> k[1], token_mint |-> "USDC", balance |-> TradeBalance]
                          ELSE NoUserBalance]
    /\ vault_authority = [t \in Tokens |->
                             IF t = "USDC"
                             THEN [token_mint |-> "USDC", total_deposits |-> 2 * TradeBalance]
                             ELSE NoVaultAuthority]
    /\ vault_ata = [t \in Tokens |-> IF t = "USDC" THEN 2 * TradeBalance ELSE 0]
    /\ wallet = [k \in Users \X Mints |->
                    IF k = <<"u2", RealMint>> THEN RealTokens
                    ELSE IF k[1] \in Parties /\ k[2] = "USDC" THEN usdc
                    ELSE 0]
    /\ trade_config = [admin |-> Admin, vault_program |-> VAULT, relayers |-> <<Relayer>>,
                       economic_config |-> econ, paused |-> FALSE]
    /\ token_market = [m \in Markets |->
                          [token_id |-> m, symbol |-> MarketSymbol, name |-> MarketName,
                           real_mint |-> RealMint, mapping_time |-> 0,
                           settle_time_limit |-> SettleTimeLimit, created_at |-> 0]]
    /\ trade_record = [k \in TradeKeys |-> NoTradeRecord]
    /\ order_status = [o \in Orders |-> NoOrderStatus]
    /\ ClockInit
    /\ last = NoLast

Init == \E econ \in EconConfigs : LifecycleInit(econ, 0)

\* the accounts a relayer passes to match_orders: the parties' own balance
\* accounts, or the buyer's account in both places
MatchCtx(signer, k, buy_order, sell_order, same) ==
    [trade_record |-> k, token_market |-> "M1", relayer |-> signer,
     buyer_balance |-> <<buy_order.trader, "USDC">>,
     seller_balance |-> IF same THEN <<buy_order.trader, "USDC">>
                        ELSE <<sell_order.trader, "USDC">>,
     collateral_mint |-> "USDC", tx |-> TradeShape]

SettleCtx(signer, k) ==
    [trade_record |-> k, token_market |-> "M1", seller |-> signer,
     seller_balance |-> <<signer, "USDC">>, tx |-> TradeShape]

CancelCtx(signer, k) ==
    [trade_record |-> k, token_market |-> "M1", buyer |-> signer,
     buyer_balance |-> <<signer, "USDC">>,
     seller_balance |-> <<trade_record[k].seller, "USDC">>, tx |-> TradeShape]

Next ==
    \/ \E signer \in {Relayer, "u1"}, k \in TradeKeys, p \in OrderPairs,
          f \in FillOverrides, same \in BOOLEAN :
          MatchOrders(MatchCtx(signer, k, p[1], p[2], same), p[1], p[2], f)
    \/ \E signer \in Users, k \in TradeKeys : SettleTrade(SettleCtx(signer, k))
    \/ \E signer \in Users, k \in TradeKeys : CancelTrade(CancelCtx(signer, k))
    \/ \E d \in ClockSteps : now + d \in ClockValues /\ Tick(d)

Spec == Init /\ [][Next]_vars

(***************************************************************************)
(* Deposits and withdrawals around one trade and its orders                *)
(***************************************************************************)
GapWallet == 1                             \* collateral tokens each party still holds
GapDeposits == 2                           \* deposits made on top of the initial ones

InitGap == LifecycleInit(Econ(1, 100, 10000, 10000, 0, 5000), GapWallet)

DepositAllowed(t) ==
    vault_authority[t].total_deposits < 2 * TradeBalance + GapDeposits

OrderCtx(order) ==
    [token_market |-> "M1", trader |-> order.trader,
     trader_balance |-> <<order.trader, order.collateral_token>>, tx |-> TradeShape]

NextGap ==
    \/ \E u \in Parties : DepositAllowed("USDC") /\ DepositCollateral(u, "USDC", 1)
    \/ \E u \in Parties : WithdrawCollateral(u, "USDC", 2)
    \/ \E k \in TradeKeys :
          MatchOrders(MatchCtx(Relayer, k, BuyOrder, SellOrder, FALSE),
                      BuyOrder, SellOrder, None)
    \/ \E signer \in Parties, k \in TradeKeys : SettleTrade(SettleCtx(signer, k))
    \/ \E signer \in Parties, k \in TradeKeys : CancelTrade(CancelCtx(signer, k))
    \/ \E order \in {BuyOrder, SellOrder} : CancelOrder(OrderCtx(order), order)
    \/ \E d \in ClockSteps : now + d \in ClockValues /\ Tick(d)

SpecGap == InitGap /\ [][NextGap]_vars

(***************************************************************************)
(* Caller detection on its own: every instruction list of up to MaxTxLen   *)
(* instructions, every position of the executing instruction               *)
(***************************************************************************)
MaxTxLen == 3

SysvarPrograms == {SYS, CB, VAULT, TRADE, EVIL}

RECURSIVE TxOfLen(_)
TxOfLen(n) ==
    IF n = 0 THEN {<<>>}
    ELSE {Append(tx, p) : tx \in TxOfLen(n - 1), p \in SysvarPrograms}

\* the program that really invoked the vault instruction: nobody when the
\* executing top-level instruction is the vault's own, else that instruction's program
Invoker(tx, cur) == IF tx[cur + 1] = VAULT THEN TopLevel ELSE tx[cur + 1]

\* the contents of the instructions sysvar: the top-level instructions and
\* the index of the executing one
LoadedSysvars ==
    UNION {{Shape(tx, cur, Invoker(tx, cur)) : cur \in 0..(Len(tx) - 1)} :
              tx \in UNION {TxOfLen(m) : m \in 1..MaxTxLen}}

\* what the detection was given and what it returned
Detection(sh, caller) == [tx |-> sh.tx, cur |-> sh.cur, caller |-> caller]

InitDetect ==
    /\ VaultInit
    /\ wallet = [k \in Users \X Mints |-> 0]
    /\ TradeInit(Econ(1, 100, 10000, 10000, 0, 10000))
    /\ ClockInit
    /\ \E sh \in LoadedSysvars : last = MkLast("instructions", "Ok", Default, Detection(sh, NoProgram))

\* get_cpi_caller_program_id applied to the sysvar of the transaction
GetCpiCallerProgramId ==
    LET sh == Shape(last.key.tx, last.key.cur, Invoker(last.key.tx, last.key.cur))
        caller == get_cpi_caller_program_id(sh)
    IN /\ last.op = "instructions"
       /\ last' = MkLast("get_cpi_caller_program_id",
                         IF caller = NoProgram THEN "FailedToLoadInstruction" ELSE "Ok",
                         Default, Detection(sh, caller))
       /\ UNCHANGED <<vaultVars, tradeVars, clockVars>>

NextDetect == GetCpiCallerProgramId

SpecDetect == InitDetect /\ [][NextDetect]_vars

(***************************************************************************)
(* The privileged vault instructions under every one- and two-instruction  *)
(* transaction, with the pause switch and the allow-list changing          *)
(***************************************************************************)
AuthorizeBalance == 1                      \* what each user has deposited

\* the transactions of one or two instructions among the system program, the
\* trading program and another program
CallShapes ==
    {sh \in LoadedSysvars : Len(sh.tx) <= 2 /\ Range(sh.tx) \subseteq {SYS, TRADE, EVIL}}

\* after initialize_vault, add_authorized_trader(premarket_trade) and a deposit
\* of AuthorizeBalance by each user
InitAuthorize ==
    /\ vault_config = [admin |-> Admin, emergency_admin |-> EmergencyAdmin,
                       paused |-> FALSE, authorized_traders |-> <<TRADE>>]
    /\ user_balance = [k \in UBKeys |->
                          IF k[1] \in VaultUsers /\ k[2] = "USDC"
                          THEN [user |-> k[1], token_mint |-> "USDC",
                                balance |-> AuthorizeBalance]
                          ELSE NoUserBalance]
    /\ vault_authority = [t \in Tokens |->
                             IF t = "USDC"
                             THEN [token_mint |-> "USDC",
                                   total_deposits |-> 2 * AuthorizeBalance]
                             ELSE NoVaultAuthority]
    /\ vault_ata = [t \in Tokens |-> IF t = "USDC" THEN 2 * AuthorizeBalance ELSE 0]
    /\ wallet = [k \in Users \X Mints |-> 0]
    /\ TradeInit(Econ(1, 100, 10000, 10000, 0, 10000))
    /\ ClockInit
    /\ last = NoLast

NextAuthorize ==
    \/ \E signer \in {Admin, "u1"} : AddAuthorizedTrader(signer, TRADE)
    \/ \E signer \in {Admin, "u1"} : RemoveAuthorizedTrader(signer, TRADE)
    \/ \E signer \in {EmergencyAdmin, "u1"} : VaultPause(signer)
    \/ \E signer \in {EmergencyAdmin, "u1"} : VaultUnpause(signer)
    \/ \E a \in VaultAmounts, sh \in CallShapes : SlashBalance(<<"u1", "USDC">>, a, sh)
    \/ \E a \in VaultAmounts, sh \in CallShapes :
          CreditInBound(<<"u1", "USDC">>, a) /\ CreditBalance(<<"u1", "USDC">>, a, sh)
    \/ \E a \in VaultAmounts, sh \in CallShapes : TransferOut(<<"u1", "USDC">>, "u1", a, sh)
    \/ \E a \in VaultAmounts, sh \in CallShapes :
          TransferBalance("u1", "USDC", "u2", "USDC", a, sh)

SpecAuthorize == InitAuthorize /\ [][NextAuthorize]_vars

(***************************************************************************)
(* The allow-list on its own: more programs than the list can hold         *)
(***************************************************************************)
NumTraderPrograms == 11

\* the trading programs the admin may list, numbered
TraderPrograms == 1..NumTraderPrograms

\* the programs offered to add_authorized_trader: the lowest and the highest
\* one not listed, and the first one listed
AddCandidates(traders) ==
    LET missing == TraderPrograms \ Range(traders)
    IN {p \in missing : (\A q \in missing : p <= q) \/ (\A q \in missing : p >= q)}
       \cup (IF traders = <<>> THEN {} ELSE {traders[1]})

\* the programs offered to remove_authorized_trader: the last one listed and
\* the lowest one not listed
RemoveCandidates(traders) ==
    LET missing == TraderPrograms \ Range(traders)
    IN {p \in missing : \A q \in missing : p <= q}
       \cup (IF traders = <<>> THEN {} ELSE {traders[Len(traders)]})

InitTraders ==
    /\ VaultInit
    /\ wallet = [k \in Users \X Mints |-> 0]
    /\ TradeInit(Econ(1, 100, 10000, 10000, 0, 10000))
    /\ ClockInit
    /\ last = NoLast

NextTraders ==
    \/ \E signer \in {Admin, "u1"}, p \in AddCandidates(vault_config.authorized_traders) :
          AddAuthorizedTrader(signer, p)
    \/ \E signer \in {Admin, "u1"}, p \in RemoveCandidates(vault_config.authorized_traders) :
          RemoveAuthorizedTrader(signer, p)

SpecTraders == InitTraders /\ [][NextTraders]_vars

(***************************************************************************)
(* Matching on its own: pairs of orders that should and should not match   *)
(***************************************************************************)
\* an order for another market, in another collateral token, by the seller,
\* below the sell price, expiring at the first clock reading, below
\* MIN_PRICE, and for nothing
BuyOtherMarket == [BuyOrder EXCEPT !.token_id = "M2"]
SellOtherToken == [SellOrder EXCEPT !.collateral_token = "USDT"]
BuyBySeller == [BuyOrder EXCEPT !.trader = SellOrder.trader]
BuyBelowSell == [BuyOrder EXCEPT !.price = SellOrder.price - 1]
BuyExpiring == [BuyOrder EXCEPT !.deadline = SettleTimeLimit]
BuyLowPrice == [BuyOrder EXCEPT !.price = MIN_PRICE - 1, !.amount = 2000]
SellLowPrice == [SellOrder EXCEPT !.price = MIN_PRICE - 1, !.amount = 2000]
SellNothing == [SellOrder EXCEPT !.amount = 0]

MatchPairs ==
    { <<BuyOrder, SellOrder>>, <<BuyOtherMarket, SellOrder>>, <<BuyOrder, SellOtherToken>>,
      <<BuyBySeller, SellOrder>>, <<BuyBelowSell, SellOrder>>, <<SellOrder, BuyOrder>>,
      <<BuyOrder, BuyOrder>>, <<BuyExpiring, SellOrder>>, <<BuyLowPrice, SellLowPrice>>,
      <<BuyOrder, SellNothing>> }

\* a minimum fill of 2, orders of up to 100000
InitMatch == LifecycleInit(Econ(2, 100000, 10000, 10000, 0, 5000), 0)

NextMatch ==
    \/ \E k \in TradeKeys, p \in MatchPairs, f \in FillOverrides :
          MatchOrders(MatchCtx(Relayer, k, p[1], p[2], FALSE), p[1], p[2], f)
    \/ \E signer \in Parties, k \in TradeKeys : SettleTrade(SettleCtx(signer, k))
    \/ \E d \in ClockSteps : now + d \in ClockValues /\ Tick(d)

SpecMatch == InitMatch /\ [][NextMatch]_vars

(***************************************************************************)
(* Matching while relayers come and go and trading is paused and resumed   *)
(***************************************************************************)
RelayerKeys == {Relayer, "relayer2"}

InitRelayers == LifecycleInit(Econ(1, 100, 10000, 10000, 0, 5000), 0)

NextRelayers ==
    \/ \E signer \in {Admin, "u1"}, relayer \in RelayerKeys \cup {Default}, add \in BOOLEAN :
          ManageRelayers(signer, relayer, add)
    \/ \E signer \in {Admin, "u1"} : TradePause(signer)
    \/ \E signer \in {Admin, "u1"} : TradeUnpause(signer)
    \/ \E signer \in RelayerKeys, k \in TradeKeys, f \in FillOverrides :
          MatchOrders(MatchCtx(signer, k, BuyOrder, SellOrder, FALSE), BuyOrder, SellOrder, f)

SpecRelayers == InitRelayers /\ [][NextRelayers]_vars

(***************************************************************************)
(* The UserBalance methods on their own: balances and amounts near zero    *)
(* and near u64::MAX                                                       *)
(***************************************************************************)
SmallAmount == 3

MethodAmounts == 0..SmallAmount \cup {U64_MAX - 1, U64_MAX}

\* the balances the calls are kept within: those near zero and near u64::MAX
MethodBalances == 0..(2 * SmallAmount) \cup (U64_MAX - 2 * SmallAmount)..U64_MAX

\* the UserBalance the methods are applied to
Self == <<"u1", "USDC">>

\* what a method call was given: the balance before it, the amount, and for a
\* credit_balance that follows a successful slash_balance of the same amount
\* the balance before that slash (None otherwise)
MethodCall(before, amount, slashed_from) ==
    [before |-> before, amount |-> amount, slashed_from |-> slashed_from]

InitUserBalance ==
    /\ \E b \in MethodAmounts :
          user_balance = [k \in UBKeys |->
                             IF k = Self
                             THEN [user |-> "u1", token_mint |-> "USDC", balance |-> b]
                             ELSE NoUserBalance]
    /\ vault_config = [admin |-> Admin, emergency_admin |-> EmergencyAdmin,
                       paused |-> FALSE, authorized_traders |-> <<>>]
    /\ vault_authority = [t \in Tokens |-> NoVaultAuthority]
    /\ vault_ata = [t \in Tokens |-> 0]
    /\ wallet = [k \in Users \X Mints |-> 0]
    /\ TradeInit(Econ(1, 100, 10000, 10000, 0, 10000))
    /\ ClockInit
    /\ last = NoLast

\* UserBalance::slash_balance(amount) on Self
UserBalanceSlash(amount) ==
    LET b == user_balance[Self].balance
        nb == UserBalance_slash_balance(b, amount)
    IN /\ nb \in MethodBalances \cup {None}
       /\ user_balance' = IF nb = None THEN user_balance
                          ELSE [user_balance EXCEPT ![Self].balance = nb]
       /\ last' = MkLast("UserBalance::slash_balance",
                         IF nb = None THEN "InsufficientBalance" ELSE "Ok",
                         Default, MethodCall(b, amount, None))
       /\ UNCHANGED <<vault_config, vault_authority, vault_ata, wallet, tradeVars, clockVars>>

\* UserBalance::credit_balance(amount) on Self
UserBalanceCredit(amount) ==
    LET b == user_balance[Self].balance
        nb == UserBalance_credit_balance(b, amount)
        slashed_from == IF last.op = "UserBalance::slash_balance" /\ last.err = "Ok"
                           /\ last.key.amount = amount
                        THEN last.key.before ELSE None
    IN /\ nb \in MethodBalances \cup {None}
       /\ user_balance' = IF nb = None THEN user_balance
                          ELSE [user_balance EXCEPT ![Self].balance = nb]
       /\ last' = MkLast("UserBalance::credit_balance",
                         IF nb = None THEN "MathOverflow" ELSE "Ok",
                         Default, MethodCall(b, amount, slashed_from))
       /\ UNCHANGED <<vault_config, vault_authority, vault_ata, wallet, tradeVars, clockVars>>

NextUserBalance ==
    \/ \E amount \in MethodAmounts : UserBalanceSlash(amount)
    \/ \E amount \in MethodAmounts : UserBalanceCredit(amount)

SpecUserBalance == InitUserBalance /\ [][NextUserBalance]_vars

(***************************************************************************)
(* transfer_balance on its own: balances near zero and near u64::MAX       *)
(***************************************************************************)
\* after initialize_vault, add_authorized_trader(premarket_trade), deposits of
\* SmallAmount by u1 in USDC and by u2 in both tokens, and for the second
\* initial state credits that take u2's USDC balance to u64::MAX - 1
InitTransfer ==
    /\ vault_config = [admin |-> Admin, emergency_admin |-> EmergencyAdmin,
                       paused |-> FALSE, authorized_traders |-> <<TRADE>>]
    /\ \E b \in {SmallAmount, U64_MAX - 1} :
          user_balance = [k \in UBKeys |->
                             IF k = <<"u1", "USDC">> \/ k = <<"u2", "USDT">>
                             THEN [user |-> k[1], token_mint |-> k[2], balance |-> SmallAmount]
                             ELSE IF k = <<"u2", "USDC">>
                             THEN [user |-> "u2", token_mint |-> "USDC", balance |-> b]
                             ELSE NoUserBalance]
    /\ vault_authority = [t \in Tokens |->
                             [token_mint |-> t,
                              total_deposits |-> IF t = "USDC" THEN 2 * SmallAmount
                                                 ELSE SmallAmount]]
    /\ vault_ata = [t \in Tokens |-> IF t = "USDC" THEN 2 * SmallAmount ELSE SmallAmount]
    /\ wallet = [k \in Users \X Mints |-> 0]
    /\ TradeInit(Econ(1, 100, 10000, 10000, 0, 10000))
    /\ ClockInit
    /\ last = NoLast

\* the transfer leaves every balance near zero or near u64::MAX
TransferInBound(from_user, tf, to_user, tt, amount, sh) ==
    LET r == transfer_balance(vault_config, Ledger, from_user, tf, to_user, tt, amount, sh)
    IN \A k \in UBKeys : r.L.ub[k].balance \in MethodBalances

NextTransfer ==
    \E fu \in VaultUsers, tf \in Tokens, tu \in VaultUsers, tt \in Tokens,
       a \in MethodAmounts, sh \in VaultTxShapes :
       TransferInBound(fu, tf, tu, tt, a, sh) /\ TransferBalance(fu, tf, tu, tt, a, sh)

SpecTransfer == InitTransfer /\ [][NextTransfer]_vars

(***************************************************************************)
(* The OrderStatus methods on their own: one record, filled, cancelled and *)
(* marked expired while the clock passes its expiry                        *)
(***************************************************************************)
OrderQuantity == 3                         \* original_quantity of the record

\* the OrderStatus the methods are applied to
TheOrder == BuyOrder

FillQuantities == 0..(OrderQuantity + 1)

\* what a method call was given: the record before it and the quantity
OrderCall(before, quantity) == [before |-> before, amount |-> quantity]

\* after OrderStatus::initialize of an order for nothing or for OrderQuantity,
\* expiring at the first clock reading
InitOrderStatus ==
    /\ VaultInit
    /\ wallet = [k \in Users \X Mints |-> 0]
    /\ trade_config = [admin |-> Admin, vault_program |-> VAULT, relayers |-> <<>>,
                       economic_config |-> Econ(1, 100, 10000, 10000, 0, 10000),
                       paused |-> FALSE]
    /\ token_market = [m \in Markets |-> NoTokenMarket]
    /\ trade_record = [k \in TradeKeys |-> NoTradeRecord]
    /\ \E quantity \in {0, OrderQuantity} :
          order_status = [o \in Orders |->
                             IF o = TheOrder
                             THEN [user |-> o.trader, original_quantity |-> quantity,
                                   filled_quantity |-> 0, collateral_locked |-> 0,
                                   expires_at |-> SettleTimeLimit, status |-> "Active"]
                             ELSE NoOrderStatus]
    /\ ClockInit
    /\ last = NoLast

\* a method of TheOrder returned r
OrderMethod(op, r, quantity) ==
    /\ order_status' = [order_status EXCEPT ![TheOrder] = r.os]
    /\ last' = MkLast(op, r.err, Default, OrderCall(order_status[TheOrder], quantity))
    /\ UNCHANGED <<vaultVars, trade_config, token_market, trade_record, clockVars>>

FillOrder(fill_quantity) ==
    OrderMethod("OrderStatus::fill_order",
                fill_order(order_status[TheOrder], fill_quantity, now), fill_quantity)

CancelOrderStatus ==
    OrderMethod("OrderStatus::cancel_order", OrderStatus_cancel_order(order_status[TheOrder]), 0)

MarkExpired ==
    OrderMethod("OrderStatus::mark_expired", mark_expired(order_status[TheOrder], now), 0)

NextOrderStatus ==
    \/ \E fill_quantity \in FillQuantities : FillOrder(fill_quantity)
    \/ CancelOrderStatus
    \/ MarkExpired
    \/ \E d \in ClockSteps : now + d \in ClockValues /\ Tick(d)

SpecOrderStatus == InitOrderStatus /\ [][NextOrderStatus]_vars

(***************************************************************************)
(* Token markets: created, mapped to a real mint, created again            *)
(***************************************************************************)
\* a name of n characters
LongString(n) == [i \in 1..n |-> "x"]

Symbols == {<<>>, <<" ">>, MarketSymbol, <<"O", "R", "C">>, LongString(MAX_SYMBOL_LENGTH + 1)}
Names == {<<" ", " ">>, MarketName, LongString(MAX_NAME_LENGTH + 1)}
SettleTimeLimits == {MIN_SETTLE_TIME - 1, SettleTimeLimit, MAX_SETTLE_TIME, MAX_SETTLE_TIME + 1}

\* after initialize_vault and initialize_trading
InitMarket ==
    /\ VaultInit
    /\ wallet = [k \in Users \X Mints |-> 0]
    /\ TradeInit(Econ(1, 100, 10000, 10000, 0, 10000))
    /\ ClockInit
    /\ last = NoLast

NextMarket ==
    \/ \E signer \in {Admin, "u1"}, key \in Markets, symbol \in Symbols, name \in Names,
          settle_time_limit \in SettleTimeLimits :
          CreateTokenMarket(signer, key, symbol, name, settle_time_limit)
    \/ \E signer \in {Admin, "u1"}, key \in Markets, real_mint \in {RealMint, "USDC"},
          real_mint_account \in {RealMint, "USDC"} :
          MapToken(signer, key, real_mint, real_mint_account)
    \/ \E signer \in {Admin, "u1"} : TradePause(signer)
    \/ \E signer \in {Admin, "u1"} : TradeUnpause(signer)
    \/ \E d \in ClockSteps : now + d \in ClockValues /\ Tick(d)

SpecMarket == InitMarket /\ [][NextMarket]_vars

(***************************************************************************)
(* The economic policy: set by initialize_trading, changed by              *)
(* update_economic_config                                                  *)
(***************************************************************************)
\* a policy in the middle of the bounds, one on every upper bound, and one
\* past each bound in turn
Policies ==
    { Econ(1, 100, 10000, 10000, 0, 10000),
      Econ(1, MaxOrderAmountCeiling, MAX_COLLATERAL_RATIO, MAX_COLLATERAL_RATIO,
           MAX_REWARD_BPS, MAX_PENALTY_BPS),
      Econ(1, 100, MAX_COLLATERAL_RATIO + 1, 10000, 0, 10000),
      Econ(1, 100, 10000, MAX_COLLATERAL_RATIO + 1, 0, 10000),
      Econ(1, 100, 10000, 10000, MAX_REWARD_BPS + 1, 10000),
      Econ(1, 100, 10000, 10000, 0, MAX_PENALTY_BPS + 1),
      Econ(0, 100, 10000, 10000, 0, 10000),
      Econ(100, 100, 10000, 10000, 0, 10000),
      Econ(1, MaxOrderAmountCeiling + 1, 10000, 10000, 0, 10000) }

\* before initialize_trading
InitConfig ==
    /\ VaultInit
    /\ wallet = [k \in Users \X Mints |-> 0]
    /\ trade_config = NoTradeConfig
    /\ token_market = [m \in Markets |-> NoTokenMarket]
    /\ trade_record = [k \in TradeKeys |-> NoTradeRecord]
    /\ order_status = [o \in Orders |-> NoOrderStatus]
    /\ ClockInit
    /\ last = NoLast

NextConfig ==
    \/ \E signer \in {Admin, "u1"}, economic_config \in Policies :
          InitializeTrading(signer, VAULT, economic_config)
    \/ \E signer \in {Admin, "u1"}, new_config \in Policies :
          UpdateEconomicConfig(signer, new_config)
    \/ \E signer \in {Admin, "u1"} : trade_config.admin # Default /\ TradePause(signer)
    \/ \E signer \in {Admin, "u1"} : trade_config.admin # Default /\ TradeUnpause(signer)

SpecConfig == InitConfig /\ [][NextConfig]_vars

(***************************************************************************)
(* The settlement calculators as pure functions                            *)
(***************************************************************************)
\* amounts whose product with a price of PRICE_SCALE reaches and passes U64_MAX
CalcAmounts ==
    {1, 999, U64_MAX \div PRICE_SCALE, U64_MAX \div PRICE_SCALE + 1,
     2 * (U64_MAX \div PRICE_SCALE)}
CalcPrices == {MIN_PRICE, 333333, PRICE_SCALE, PRICE_SCALE + 1}
\* basis points a u16 field can hold
CalcBps == {0, 1, 3333, 10000, 20000, 65535}
\* collateral recorded on the trade the calculator is asked about
CalcCollaterals == {0, 5, U64_MAX}
CalcPolicies ==
    { Econ(1, 100, 10000, 10000, 0, 10000),
      Econ(1, 100, 3333, 20000, 1, 3333),
      Econ(1, 100, 0, 10000, MAX_REWARD_BPS, MAX_PENALTY_BPS),
      Econ(1, 100, 65535, 0, 65535, 65535) }

\* what a calculator was given and what it returned
CalcCall(amount, price, bps, economic_config, buyer_collateral, seller_collateral, out) ==
    [amount |-> amount, price |-> price, bps |-> bps, economic_config |-> economic_config,
     buyer_collateral |-> buyer_collateral, seller_collateral |-> seller_collateral,
     out |-> out]

\* the accounts as the lifecycle starts with them: no calculator reads them
InitCalc == InitMatch

\* a calculator changes nothing but the observation of its call
calcFrame == <<vaultVars, trade_config, token_market, trade_record, order_status, clockVars>>

OverflowOr(out) == IF out = None THEN "MathOverflow" ELSE "Ok"

TradeValue(amount, price) ==
    LET out == trade_value(amount, price)
    IN /\ last' = MkLast("trade_value", OverflowOr(out), Default,
                  CalcCall(amount, price, 0, Econ(0, 0, 0, 0, 0, 0), 0, 0, out))
       /\ UNCHANGED calcFrame

SafeCalculateCollateral(amount, price, ratio) ==
    LET out == safe_calculate_collateral(amount, price, ratio)
    IN /\ last' = MkLast("safe_calculate_collateral", OverflowOr(out), Default,
                  CalcCall(amount, price, ratio, Econ(0, 0, 0, 0, 0, 0), 0, 0, out))
       /\ UNCHANGED calcFrame

CalculateCollateralRequirements(amount, price, economic_config) ==
    LET out == calculate_collateral_requirements(amount, price, economic_config)
    IN /\ last' = MkLast("calculate_collateral_requirements", out.err, Default,
                  CalcCall(amount, price, 0, economic_config, 0, 0, out))
       /\ UNCHANGED calcFrame

CalculateOrderCollateral(amount, price, is_buy, economic_config) ==
    LET out == calculate_order_collateral(amount, price, is_buy, economic_config)
        ratio == IF is_buy THEN economic_config.buyer_collateral_ratio
                 ELSE economic_config.seller_collateral_ratio
    IN /\ last' = MkLast("calculate_order_collateral", OverflowOr(out), Default,
                  CalcCall(amount, price, ratio, economic_config, 0, 0, out))
       /\ UNCHANGED calcFrame

CalculateSettlementAmounts(filled_amount, price, seller_collateral, economic_config) ==
    LET out == calculate_settlement_amounts(filled_amount, price, seller_collateral, economic_config)
    IN /\ last' = MkLast("calculate_settlement_amounts", out.err, Default,
                  CalcCall(filled_amount, price, economic_config.seller_reward_bps,
                           economic_config, 0, seller_collateral, out))
       /\ UNCHANGED calcFrame

CalculateCancellationAmounts(filled_amount, price, buyer_collateral, seller_collateral, economic_config) ==
    LET out == calculate_cancellation_amounts(filled_amount, price, buyer_collateral,
                                              seller_collateral, economic_config)
    IN /\ last' = MkLast("calculate_cancellation_amounts", out.err, Default,
                  CalcCall(filled_amount, price, economic_config.late_penalty_bps,
                           economic_config, buyer_collateral, seller_collateral, out))
       /\ UNCHANGED calcFrame

NextCalc ==
    \/ \E amount \in CalcAmounts, price \in CalcPrices : TradeValue(amount, price)
    \/ \E amount \in CalcAmounts, price \in CalcPrices, ratio \in CalcBps :
          SafeCalculateCollateral(amount, price, ratio)
    \/ \E amount \in CalcAmounts, price \in CalcPrices, economic_config \in CalcPolicies :
          CalculateCollateralRequirements(amount, price, economic_config)
    \/ \E amount \in CalcAmounts, price \in CalcPrices, is_buy \in BOOLEAN,
          economic_config \in CalcPolicies :
          CalculateOrderCollateral(amount, price, is_buy, economic_config)
    \/ \E amount \in CalcAmounts, price \in CalcPrices, seller_collateral \in CalcCollaterals,
          economic_config \in CalcPolicies :
          CalculateSettlementAmounts(amount, price, seller_collateral, economic_config)
    \/ \E amount \in CalcAmounts, price \in CalcPrices, buyer_collateral \in CalcCollaterals,
          seller_collateral \in CalcCollaterals, economic_config \in CalcPolicies :
          CalculateCancellationAmounts(amount, price, buyer_collateral, seller_collateral,
                                       economic_config)

SpecCalc == InitCalc /\ [][NextCalc]_vars

(***************************************************************************)
(* The lifecycle with a bystander: u3 has a deposit too, and the signer of *)
(* an instruction passes whichever UserBalance accounts they choose        *)
(***************************************************************************)
InitParties ==
    /\ vault_config = [admin |-> Admin, emergency_admin |-> EmergencyAdmin,
                       paused |-> FALSE, authorized_traders |-> <<TRADE>>]
    /\ user_balance = [k \in UBKeys |->
                          IF k[2] = "USDC"
                          THEN [user |-> k[1], token_mint |-> "USDC", balance |-> TradeBalance]
                          ELSE NoUserBalance]
    /\ vault_authority = [t \in Tokens |->
                             IF t = "USDC"
                             THEN [token_mint |-> "USDC",
                                   total_deposits |-> Cardinality(Users) * TradeBalance]
                             ELSE NoVaultAuthority]
    /\ vault_ata = [t \in Tokens |->
                       IF t = "USDC" THEN Cardinality(Users) * TradeBalance ELSE 0]
    /\ wallet = [k \in Users \X Mints |-> IF k = <<"u2", RealMint>> THEN RealTokens ELSE 0]
    /\ trade_config = [admin |-> Admin, vault_program |-> VAULT, relayers |-> <<Relayer>>,
                       economic_config |-> Econ(1, 100, 10000, 10000, 0, 5000),
                       paused |-> FALSE]
    /\ token_market = [m \in Markets |->
                          [token_id |-> m, symbol |-> MarketSymbol, name |-> MarketName,
                           real_mint |-> RealMint, mapping_time |-> 0,
                           settle_time_limit |-> SettleTimeLimit, created_at |-> 0]]
    /\ trade_record = [k \in TradeKeys |-> NoTradeRecord]
    /\ order_status = [o \in Orders |-> NoOrderStatus]
    /\ ClockInit
    /\ last = NoLast

\* the accounts of an instruction with the balance accounts of `bu` and `su`
\* in the places of the buyer's and the seller's
WithBalances(ctx, bu, su) ==
    [ctx EXCEPT !.buyer_balance = <<bu, "USDC">>, !.seller_balance = <<su, "USDC">>]

NextParties ==
    \/ \E k \in TradeKeys, bu \in Users, su \in Users :
          MatchOrders(WithBalances(MatchCtx(Relayer, k, BuyOrder, SellOrder, FALSE), bu, su),
                      BuyOrder, SellOrder, None)
    \/ \E signer \in Users, k \in TradeKeys, su \in Users :
          SettleTrade([SettleCtx(signer, k) EXCEPT !.seller_balance = <<su, "USDC">>])
    \/ \E signer \in Users, k \in TradeKeys, bu \in Users, su \in Users :
          CancelTrade(WithBalances(CancelCtx(signer, k), bu, su))
    \/ \E d \in ClockSteps : now + d \in ClockValues /\ Tick(d)

SpecParties == InitParties /\ [][NextParties]_vars

(***************************************************************************)
(* One pair of signed orders, matched into any of two TradeRecord accounts *)
(* and cancelled by their traders                                          *)
(***************************************************************************)
FillKeys == {"R1", "R2"}                   \* TradeRecord account addresses

InitFills ==
    /\ vault_config = [admin |-> Admin, emergency_admin |-> EmergencyAdmin,
                       paused |-> FALSE, authorized_traders |-> <<TRADE>>]
    /\ user_balance = [k \in UBKeys |->
                          IF k[1] \in Parties /\ k[2] = "USDC"
                          THEN [user |-> k[1], token_mint |-> "USDC", balance |-> TradeBalance]
                          ELSE NoUserBalance]
    /\ vault_authority = [t \in Tokens |->
                             IF t = "USDC"
                             THEN [token_mint |-> "USDC", total_deposits |-> 2 * TradeBalance]
                             ELSE NoVaultAuthority]
    /\ vault_ata = [t \in Tokens |-> IF t = "USDC" THEN 2 * TradeBalance ELSE 0]
    /\ wallet = [k \in Users \X Mints |-> IF k = <<"u2", RealMint>> THEN RealTokens ELSE 0]
    /\ trade_config = [admin |-> Admin, vault_program |-> VAULT, relayers |-> <<Relayer>>,
                       economic_config |-> Econ(1, 100, 10000, 10000, 0, 5000),
                       paused |-> FALSE]
    /\ token_market = [m \in Markets |->
                          [token_id |-> m, symbol |-> MarketSymbol, name |-> MarketName,
                           real_mint |-> RealMint, mapping_time |-> 0,
                           settle_time_limit |-> SettleTimeLimit, created_at |-> 0]]
    /\ trade_record = [k \in FillKeys |-> NoTradeRecord]
    /\ order_status = [o \in Orders |-> NoOrderStatus]
    /\ ClockInit
    /\ last = NoLast

NextFills ==
    \/ \E k \in FillKeys, f \in FillOverrides :
          MatchOrders(MatchCtx(Relayer, k, BuyOrder, SellOrder, FALSE), BuyOrder, SellOrder, f)
    \/ \E order \in {BuyOrder, SellOrder} : CancelOrder(OrderCtx(order), order)
    \/ \E signer \in Parties, k \in FillKeys : SettleTrade(SettleCtx(signer, k))
    \/ \E d \in ClockSteps : now + d \in ClockValues /\ Tick(d)

SpecFills == InitFills /\ [][NextFills]_vars

(***************************************************************************)
(* Properties                                                              *)
(***************************************************************************)
\* a privileged vault instruction sent with transaction shape sh
PrivilegedStep(sh) ==
    \/ \E u \in VaultUsers, a \in VaultAmounts : SlashBalance(<<u, "USDC">>, a, sh)
    \/ \E u \in VaultUsers, a \in VaultAmounts : CreditBalance(<<u, "USDC">>, a, sh)
    \/ \E u \in VaultUsers, r \in VaultUsers, a \in VaultAmounts :
          TransferOut(<<u, "USDC">>, r, a, sh)
    \/ \E fu \in VaultUsers, tu \in VaultUsers, tt \in Tokens, a \in VaultAmounts :
          TransferBalance(fu, "USDC", tu, tt, a, sh)

\* collateral recorded in the TradeRecords of token t that are not settled
SumLocked(t) ==
    SumOver(TradeKeys,
            [k \in TradeKeys |->
                IF trade_record[k].trade_id # Default /\ ~trade_record[k].settled
                   /\ trade_record[k].collateral_mint = t
                THEN trade_record[k].buyer_collateral + trade_record[k].seller_collateral
                ELSE 0])

\* filled_amount * price / PRICE_SCALE of a TradeRecord
RecordValue(rec) == (rec.filled_amount * rec.price) \div PRICE_SCALE

\* match_time + settle_time_limit of the TradeRecord at k
Deadline(k) == trade_record[k].match_time + token_market["M1"].settle_time_limit

\* C1: for every token, in every state reached by deposits, withdrawals and
\* privileged credits, slashes, transfers out and transfers between balances,
\* the balances of the token sum to at most VaultAuthority.total_deposits.
C1_BalancesWithinTotalDeposits ==
    \A t \in Tokens : SumBalances(t) <= vault_authority[t].total_deposits

\* C2: a privileged vault instruction whose real invoker is not in
\* authorized_traders changes no balance, whatever other top-level
\* instructions the transaction holds.
C2_UnlistedInvokerChangesNoBalance ==
    [][\A sh \in VaultTxShapes :
          (~is_authorized_trader(vault_config, sh.invoker) /\ PrivilegedStep(sh))
             => UNCHANGED user_balance]_vars

\* C10: a step that changes total_deposits of some token is a deposit, a
\* withdrawal or a transfer out; credit_balance, slash_balance and
\* transfer_balance leave every total_deposits as it was.
C10_TotalDepositsFrame ==
    [][/\ (\E t \in Tokens : vault_authority'[t].total_deposits
                               # vault_authority[t].total_deposits)
             => last'.op \in {"deposit", "withdraw", "transfer_out"}
       /\ last'.op \in {"credit_balance", "slash_balance", "transfer_balance"}
             => \A t \in Tokens : vault_authority'[t].total_deposits
                                    = vault_authority[t].total_deposits]_vars

\* a privileged credit has succeeded on a token with deposits
C10_CreditedWithDeposits ==
    /\ last.op = "credit_balance" /\ last.err = "Ok"
    /\ vault_authority["USDC"].total_deposits > 0

\* C3: once a TradeRecord is settled no step changes any of its fields.
C3_SettledRecordFrozen ==
    [][\A k \in TradeKeys :
          trade_record[k].settled => trade_record'[k] = trade_record[k]]_vars

\* C4: settle_trade or cancel_trade on a settled TradeRecord fails with
\* TradeAlreadySettled, whoever signs and whatever the time, and leaves every
\* balance, every token account and the record as they were.
C4_SettledRejectsResolution ==
    [][(last'.op \in {"settle_trade", "cancel_trade"}
          /\ trade_record[last'.key].settled)
         => (/\ last'.err = "TradeAlreadySettled"
             /\ UNCHANGED <<user_balance, vault_authority, vault_ata, wallet, trade_record>>)]_vars

\* the seller tried to settle a settled trade
C4_SellerSettlesSettled ==
    /\ last.op = "settle_trade" /\ last.err = "TradeAlreadySettled"
    /\ trade_record[last.key].settled
    /\ last.signer = trade_record[last.key].seller

\* C5: on an unsettled trade with deadline D = match_time + settle_time_limit,
\* settle_trade fails with GracePeriodExpired only when now > D and, once the
\* account constraints pass, whenever now > D; cancel_trade fails with
\* GracePeriodActive only when now <= D and, once the account constraints
\* pass, whenever now <= D.
C5_DeadlineSplitsResolution ==
    [][/\ last'.op = "settle_trade"
            => /\ last'.err = "GracePeriodExpired" => now > Deadline(last'.key)
               /\ (SettleTrade_constraints(SettleCtx(last'.signer, last'.key)) = "Ok"
                     /\ now > Deadline(last'.key))
                    => last'.err = "GracePeriodExpired"
       /\ last'.op = "cancel_trade"
            => /\ last'.err = "GracePeriodActive" => now <= Deadline(last'.key)
               /\ (CancelTrade_constraints(CancelCtx(last'.signer, last'.key)) = "Ok"
                     /\ now <= Deadline(last'.key))
                    => last'.err = "GracePeriodActive"]_vars

\* the buyer tried to cancel exactly at the deadline
C5_CancelAtDeadline ==
    /\ last.op = "cancel_trade" /\ last.err = "GracePeriodActive"
    /\ last.signer = trade_record[last.key].buyer
    /\ now = Deadline(last.key)

\* C6: a successful cancel_trade pays the buyer buyer_collateral + penalty and
\* the seller seller_collateral - penalty, with penalty the smaller of
\* trade_value * late_penalty_bps / 10000 and seller_collateral; the seller's
\* payout is not negative and the two payouts sum to the two collaterals.
C6_CancelPayouts ==
    [][(last'.op = "cancel_trade" /\ last'.err = "Ok")
         => LET rec == trade_record[last'.key]
                raw == (RecordValue(rec) * trade_config.economic_config.late_penalty_bps)
                         \div BPS
                penalty == Min(raw, rec.seller_collateral)
                buyer_paid == wallet'[<<rec.buyer, rec.collateral_mint>>]
                                - wallet[<<rec.buyer, rec.collateral_mint>>]
                seller_paid == wallet'[<<rec.seller, rec.collateral_mint>>]
                                 - wallet[<<rec.seller, rec.collateral_mint>>]
            IN /\ buyer_paid = rec.buyer_collateral + penalty
               /\ seller_paid = rec.seller_collateral - penalty
               /\ seller_paid >= 0
               /\ buyer_paid + seller_paid = rec.buyer_collateral + rec.seller_collateral]_vars

\* a trade was cancelled whose penalty was capped at seller_collateral
C6_CappedPenaltyPaid ==
    /\ last.op = "cancel_trade" /\ last.err = "Ok"
    /\ (RecordValue(trade_record[last.key]) * trade_config.economic_config.late_penalty_bps)
         \div BPS > trade_record[last.key].seller_collateral

\* C7: a successful match_orders lowers the buyer's balance by exactly
\* buyer_collateral and the seller's by exactly seller_collateral and leaves
\* an unsettled TradeRecord; a failed one changes no balance and no record.
C7_MatchLocksBothCollaterals ==
    [][last'.op = "match_orders"
         => IF last'.err = "Ok"
            THEN LET rec == trade_record'[last'.key]
                     b == <<rec.buyer, rec.collateral_mint>>
                     sl == <<rec.seller, rec.collateral_mint>>
                 IN /\ user_balance'[b].balance = user_balance[b].balance - rec.buyer_collateral
                    /\ user_balance'[sl].balance
                         = user_balance[sl].balance - rec.seller_collateral
                    /\ ~rec.settled
            ELSE UNCHANGED <<user_balance, trade_record>>]_vars

\* what a successful match of p with fill override f records at k
MatchRecorded(k, p, f) ==
    LET rec == trade_record'[k]
        fill == IF f = None THEN Min(p[1].amount, p[2].amount)
                ELSE Min(f, Min(p[1].amount, p[2].amount))
        tv == (fill * p[1].price) \div PRICE_SCALE
    IN /\ rec.filled_amount = fill
       /\ rec.price = p[1].price
       /\ rec.buyer_collateral
            = (tv * trade_config.economic_config.buyer_collateral_ratio) \div BPS
       /\ rec.seller_collateral
            = (tv * trade_config.economic_config.seller_collateral_ratio) \div BPS

\* an authorized relayer matches p with no override and the parties' own accounts
PlainMatch(k, p) == MatchOrders(MatchCtx(Relayer, k, p[1], p[2], FALSE), p[1], p[2], None)

C9_GapIsLockedCollateral ==
    \A t \in Tokens :
        vault_authority[t].total_deposits - SumBalances(t) = SumLocked(t)

\* the indices of [0, cur + 1] whose instruction loads and is not infrastructure
Candidates(d) ==
    {i \in 0..(d.cur + 1) : i < Len(d.tx) /\ d.tx[i + 1] \notin system_programs}

InfrastructureUpToCurrent(sh) == \A i \in 1..(sh.cur + 1) : sh.tx[i] \in system_programs

\* the privileged vault instructions
PrivilegedOps == {"slash_balance", "credit_balance", "transfer_out", "transfer_balance"}

C13_PauseThenAllowList ==
    [][last'.op \in PrivilegedOps
         => LET caller == get_cpi_caller_program_id(last'.key)
                v == validate_cpi_caller_precise(vault_config, caller)
            IN /\ vault_config.paused => (v = "VaultPaused" /\ last'.err # "Ok")
               /\ ~vault_config.paused
                    => (v = "UnauthorizedTrader"
                          <=> caller \notin Range(vault_config.authorized_traders))
               /\ last'.err \in {"VaultPaused", "UnauthorizedTrader"}
                    => (last'.err = v /\ UNCHANGED vaultVars)
               /\ (caller # NoProgram /\ v # "Ok")
                    => (last'.err # "Ok" /\ UNCHANGED vaultVars)]_vars

\* a slash by the allow-listed program was refused because the vault is paused
C13_PausedRefusesListedCaller ==
    /\ last.op = "slash_balance" /\ last.err = "VaultPaused"
    /\ vault_config.paused
    /\ get_cpi_caller_program_id(last.key) = TRADE
    /\ is_authorized_trader(vault_config, TRADE)
    /\ user_balance[<<"u1", "USDC">>].balance > 0

\* C14: authorized_traders never holds more than 10 entries nor the same
\* program twice; add_authorized_trader of a listed program fails with
\* TraderAlreadyAuthorized, add_authorized_trader to a list of 10 fails with
\* MaximumTradersReached, and a failed call leaves the list as it was.
C14_AllowListBoundedNoDuplicates ==
    /\ [](/\ Len(vault_config.authorized_traders) <= 10
          /\ Cardinality(Range(vault_config.authorized_traders))
               = Len(vault_config.authorized_traders))
    /\ [][last'.op = "add_authorized_trader"
            => /\ last'.key \in Range(vault_config.authorized_traders)
                    => last'.err \in {"InvalidAdmin", "TraderAlreadyAuthorized"}
               /\ (last'.key \notin Range(vault_config.authorized_traders)
                      /\ Len(vault_config.authorized_traders) = 10)
                    => last'.err \in {"InvalidAdmin", "MaximumTradersReached"}
               /\ last'.err # "Ok" => UNCHANGED vault_config
               /\ last'.err = "Ok"
                    => vault_config'.authorized_traders
                         = Append(vault_config.authorized_traders, last'.key)]_vars

\* the admin tried to add an eleventh program to a full list
C14_EleventhRefused ==
    /\ last.op = "add_authorized_trader" /\ last.err = "MaximumTradersReached"
    /\ last.signer = Admin
    /\ Len(vault_config.authorized_traders) = 10
    /\ last.key \notin Range(vault_config.authorized_traders)

\* C15: on an existing TradeRecord, settle_trade signed by anyone other than
\* its seller and cancel_trade signed by anyone other than its buyer are
\* rejected and leave the record, every balance and every token account as
\* they were; the error is OnlySellerCanSettle / OnlyBuyerCanCancel while the
\* record is unsettled and TradeAlreadySettled once it is settled.
C15_WrongSideRejected ==
    [][LET rec == trade_record[last'.key]
       IN /\ (last'.op = "settle_trade" /\ rec.trade_id # Default
                 /\ last'.signer # rec.seller)
               => /\ last'.err = IF rec.settled THEN "TradeAlreadySettled"
                                 ELSE "OnlySellerCanSettle"
                  /\ UNCHANGED <<trade_record, vaultVars>>
          /\ (last'.op = "cancel_trade" /\ rec.trade_id # Default
                 /\ last'.signer # rec.buyer)
               => /\ last'.err = IF rec.settled THEN "TradeAlreadySettled"
                                 ELSE "OnlyBuyerCanCancel"
                  /\ UNCHANGED <<trade_record, vaultVars>>]_vars

\* C15 as stated: the wrong side always fails with OnlySellerCanSettle /
\* OnlyBuyerCanCancel, with the record and the balances unchanged.
C15_WrongSideAlwaysRoleError ==
    [][LET rec == trade_record[last'.key]
       IN /\ (last'.op = "settle_trade" /\ rec.trade_id # Default
                 /\ last'.signer # rec.seller)
               => /\ last'.err = "OnlySellerCanSettle"
                  /\ UNCHANGED <<trade_record, vaultVars>>
          /\ (last'.op = "cancel_trade" /\ rec.trade_id # Default
                 /\ last'.signer # rec.buyer)
               => /\ last'.err = "OnlyBuyerCanCancel"
                  /\ UNCHANGED <<trade_record, vaultVars>>]_vars

\* the seller tried to cancel an unsettled trade after its deadline
C15_SellerCancelRefused ==
    /\ last.op = "cancel_trade" /\ last.err = "OnlyBuyerCanCancel"
    /\ last.signer = trade_record[last.key].seller
    /\ ~trade_record[last.key].settled
    /\ now > Deadline(last.key)

\* C16: a successful settle_trade pays the seller seller_collateral +
\* seller_reward of the collateral token, with seller_reward =
\* (filled_amount * price / 1_000_000) * seller_reward_bps / 10000, moves
\* filled_amount of the mapped real token from the seller to the buyer and
\* sets settled.
C16_SettlePaysSellerAndDelivers ==
    [][(last'.op = "settle_trade" /\ last'.err = "Ok")
         => LET rec == trade_record[last'.key]
                real == token_market[rec.token_id].real_mint
                seller_reward ==
                    (RecordValue(rec) * trade_config.economic_config.seller_reward_bps)
                      \div BPS
            IN /\ wallet'[<<rec.seller, rec.collateral_mint>>]
                    = wallet[<<rec.seller, rec.collateral_mint>>]
                        + rec.seller_collateral + seller_reward
               /\ wallet'[<<rec.seller, real>>] = wallet[<<rec.seller, real>>] - rec.filled_amount
               /\ wallet'[<<rec.buyer, real>>] = wallet[<<rec.buyer, real>>] + rec.filled_amount
               /\ ~rec.settled
               /\ trade_record'[last'.key] = [rec EXCEPT !.settled = TRUE]]_vars

\* a trade was settled whose seller reward is not zero
C16_SettledWithReward ==
    /\ last.op = "settle_trade" /\ last.err = "Ok"
    /\ trade_record[last.key].settled
    /\ (RecordValue(trade_record[last.key]) * trade_config.economic_config.seller_reward_bps)
         \div BPS > 0

\* an order whose deadline has passed, or whose amount is zero, or whose
\* price is below MIN_PRICE (MAX_PRICE lies above every price of the model)
OrderOutOfBounds(order) ==
    \/ ~(order.deadline > now)
    \/ order.amount = 0
    \/ order.price < MIN_PRICE

\* the pairs and fills C17 says match_orders must reject
MustReject(p, f) ==
    \/ p[1].token_id # p[2].token_id
    \/ p[1].collateral_token # p[2].collateral_token
    \/ p[1].price < p[2].price
    \/ p[1].trader = p[2].trader
    \/ ~(p[1].is_buy /\ ~p[2].is_buy)
    \/ OrderOutOfBounds(p[1]) \/ OrderOutOfBounds(p[2])
    \/ calculate_fill_amount(p[1].amount, p[2].amount, f)
          < trade_config.economic_config.minimum_fill_amount

\* C17: match_orders rejects, changing no balance and no TradeRecord, every
\* pair of orders that differ in market or collateral token, or whose buy
\* price is below the sell price, or that have the same trader, or whose
\* sides are not (buy, sell), or one of which has passed its deadline or
\* has a price or amount out of bounds, or whose fill is below
\* minimum_fill_amount.
C17_UnmatchablePairsRejected ==
    [][\A k \in TradeKeys, p \in MatchPairs, f \in FillOverrides :
          (MatchOrders(MatchCtx(Relayer, k, p[1], p[2], FALSE), p[1], p[2], f)
             /\ MustReject(p, f))
            => (last'.err # "Ok" /\ UNCHANGED <<user_balance, trade_record>>)]_vars

\* C18: a match_orders that succeeds was signed by a key in relayers while
\* trading was not paused; relayers changes only by a successful
\* add_relayer, which adds the key named, or a successful remove_relayer,
\* after which the key named is not in the list: a removed relayer matches
\* nothing until added again.
C18_OnlyListedRelayerMatches ==
    [][/\ (last'.op = "match_orders" /\ last'.err = "Ok")
            => (is_relayer(trade_config, last'.signer) /\ ~trade_config.paused)
       /\ (last'.op = "remove_relayer" /\ last'.err = "Ok")
            => ~is_relayer(trade_config', last'.key)
       /\ trade_config'.relayers # trade_config.relayers
            => /\ last'.op \in {"add_relayer", "remove_relayer"} /\ last'.err = "Ok"
               /\ Range(trade_config'.relayers) \ Range(trade_config.relayers)
                    \subseteq (IF last'.op = "add_relayer" THEN {last'.key} ELSE {})]_vars

\* the first relayer, removed from the list, tried to match while trading
\* was not paused and the parties could cover the collateral
C18_RemovedRelayerRefused ==
    /\ last.op = "match_orders" /\ last.err = "UnauthorizedRelayer"
    /\ last.signer = Relayer
    /\ ~is_relayer(trade_config, Relayer)
    /\ ~trade_config.paused
    /\ \A u \in Parties : user_balance[<<u, "USDC">>].balance >= 2

\* C19: for every balance b and amount a with 0 < a <= b, slash_balance(a)
\* succeeds and leaves b - a, and credit_balance(a) right after it succeeds
\* and leaves the balance equal to b.
C19_SlashThenCreditRestores ==
    /\ [](last.op = "UserBalance::slash_balance"
            => ((0 < last.key.amount /\ last.key.amount <= last.key.before)
                  => (/\ last.err = "Ok"
                      /\ user_balance[Self].balance = last.key.before - last.key.amount)))
    /\ []((last.op = "UserBalance::credit_balance" /\ last.key.slashed_from # None
             /\ last.key.amount > 0)
            => (last.err = "Ok" /\ user_balance[Self].balance = last.key.slashed_from))

\* a balance of u64::MAX was slashed to zero and credited back
C19_WholeBalanceRestored ==
    /\ last.op = "UserBalance::credit_balance" /\ last.err = "Ok"
    /\ last.key.slashed_from = U64_MAX
    /\ last.key.amount = U64_MAX
    /\ last.key.before = 0
    /\ user_balance[Self].balance = U64_MAX

\* C20: slash_balance of an amount greater than the balance of an existing
\* UserBalance fails with InsufficientBalance and leaves every balance as it
\* was, whoever calls; in every reachable state every balance lies between
\* zero and u64::MAX.
C20_OverSlashRefused ==
    /\ [](\A k \in UBKeys : user_balance[k].balance \in 0..U64_MAX)
    /\ [][last'.op = "slash_balance"
            => \A u \in VaultUsers, a \in VaultAmounts :
                  (/\ user_balance[<<u, "USDC">>].user # Default
                   /\ vault_authority["USDC"].token_mint # Default
                   /\ a > user_balance[<<u, "USDC">>].balance
                   /\ SlashBalance(<<u, "USDC">>, a, last'.key))
                    => (last'.err = "InsufficientBalance" /\ UNCHANGED user_balance)]_vars

\* the allow-listed program tried to slash an existing balance of zero
C20_EmptyBalanceSlashRefused ==
    /\ last.op = "slash_balance" /\ last.err = "InsufficientBalance"
    /\ last.key = Shape(<<CB, TRADE>>, 1, TRADE)
    /\ is_authorized_trader(vault_config, TRADE)
    /\ \E u \in VaultUsers : /\ user_balance[<<u, "USDC">>].user = u
                              /\ user_balance[<<u, "USDC">>].balance = 0

\* C21: credit_balance(amount) on a balance b with b + amount above u64::MAX
\* fails with MathOverflow and leaves the balance equal to b, neither wrapped
\* nor saturated; with b + amount within u64::MAX it succeeds and leaves
\* b + amount.
C21_CreditOverflowRefused ==
    [](last.op = "UserBalance::credit_balance"
         => IF last.key.before + last.key.amount > U64_MAX
            THEN /\ last.err = "MathOverflow"
                 /\ user_balance[Self].balance = last.key.before
            ELSE /\ last.err = "Ok"
                 /\ user_balance[Self].balance = last.key.before + last.key.amount)

\* a credit that would take a balance below u64::MAX above it was refused
C21_CreditPastCeilingRefused ==
    /\ last.op = "UserBalance::credit_balance" /\ last.err = "MathOverflow"
    /\ 0 < last.key.before /\ last.key.before < U64_MAX
    /\ last.key.amount < U64_MAX
    /\ last.key.before + last.key.amount > U64_MAX
    /\ user_balance[Self].balance = last.key.before

\* C22: a transfer_balance either succeeds, with amount > 0, two different
\* users and one token, the source lowered by amount, the destination raised
\* by amount, their sum and every other balance as before, or fails and
\* leaves every account as it was; it fails when the two users are the same,
\* when the two records are for different tokens, and when the source covers
\* the amount but the destination would pass u64::MAX.
C22_TransferMovesOrNothing ==
    [][last'.op = "transfer_balance"
         => \A fu \in VaultUsers, tf \in Tokens, tu \in VaultUsers, tt \in Tokens,
               a \in MethodAmounts :
               TransferBalance(fu, tf, tu, tt, a, last'.key)
                 => LET from == <<fu, tf>>
                        to == <<tu, tt>>
                    IN /\ last'.err = "Ok"
                            => /\ a > 0 /\ fu # tu /\ tf = tt
                               /\ user_balance'[from].balance = user_balance[from].balance - a
                               /\ user_balance'[to].balance = user_balance[to].balance + a
                               /\ user_balance'[from].balance + user_balance'[to].balance
                                    = user_balance[from].balance + user_balance[to].balance
                               /\ \A k \in UBKeys \ {from, to} :
                                     user_balance'[k] = user_balance[k]
                               /\ UNCHANGED <<vault_config, vault_authority, vault_ata, wallet>>
                       /\ last'.err # "Ok" => UNCHANGED vaultVars
                       /\ (fu = tu \/ tf # tt) => last'.err # "Ok"
                       /\ (a > 0 /\ user_balance[from].balance >= a
                              /\ user_balance[to].balance + a > U64_MAX)
                            => last'.err # "Ok"]_vars

\* a transfer the source could cover was refused because the destination
\* would have passed u64::MAX, and both balances are as they were
C22_DestinationOverflowRefused ==
    /\ last.op = "transfer_balance" /\ last.err = "MathOverflow"
    /\ user_balance[<<"u1", "USDC">>].balance = SmallAmount - 1
    /\ user_balance[<<"u2", "USDC">>].balance = U64_MAX

\* C23: while the vault is not paused, deposit_collateral(a) with a > 0 that
\* the depositor's token account covers raises the depositor's balance and
\* the token's total_deposits by exactly a; withdraw_collateral(a) with
\* 0 < a <= balance lowers both by exactly a; withdraw_collateral with
\* a > balance or a = 0 fails and leaves both as they were.
C23_DepositWithdrawExact ==
    [][\A u \in VaultUsers, a \in VaultAmounts :
          LET k == <<u, "USDC">>
              b == user_balance[k].balance
              td == vault_authority["USDC"].total_deposits
              moved(d) == /\ last'.err = "Ok"
                          /\ user_balance'[k].balance = b + d
                          /\ vault_authority'["USDC"].total_deposits = td + d
              kept == /\ last'.err # "Ok"
                      /\ UNCHANGED <<user_balance, vault_authority>>
          IN /\ (last'.op = "deposit" /\ DepositCollateral(u, "USDC", a)
                   /\ ~vault_config.paused /\ a > 0 /\ wallet[k] >= a)
                 => moved(a)
             /\ (last'.op = "withdraw" /\ WithdrawCollateral(u, "USDC", a)
                   /\ ~vault_config.paused /\ user_balance[k].user # Default)
                 => IF 0 < a /\ a <= b THEN moved(0 - a) ELSE kept]_vars

\* the statuses after which an order is over
TerminalStatuses == {"Filled", "Cancelled", "Expired"}

\* C24: fill_order(qty) fails with OrderExpired when the status is neither
\* Active nor PartiallyFilled, or now > expires_at, or nothing remains, and
\* with ExceedOrderAmount when the order is fillable and qty exceeds what
\* remains; otherwise it succeeds, filled_quantity grows by qty and the status
\* is Filled exactly when filled_quantity = original_quantity; a failed call
\* changes nothing; filled_quantity never exceeds original_quantity and never
\* decreases.
C24_FillWithinRemaining ==
    /\ [](order_status[TheOrder].filled_quantity <= order_status[TheOrder].original_quantity)
    /\ [][order_status'[TheOrder].filled_quantity >= order_status[TheOrder].filled_quantity]_vars
    /\ [][last'.op = "OrderStatus::fill_order"
            => LET os == order_status[TheOrder]
                   qty == last'.key.amount
                   remaining == os.original_quantity - os.filled_quantity
                   fillable == /\ os.status \in {"Active", "PartiallyFilled"}
                               /\ ~(now > os.expires_at)
                               /\ remaining > 0
               IN IF ~fillable
                  THEN last'.err = "OrderExpired" /\ UNCHANGED order_status
                  ELSE IF qty > remaining
                  THEN last'.err = "ExceedOrderAmount" /\ UNCHANGED order_status
                  ELSE /\ last'.err = "Ok"
                       /\ order_status'[TheOrder].filled_quantity = os.filled_quantity + qty
                       /\ order_status'[TheOrder].status = "Filled"
                            <=> order_status'[TheOrder].filled_quantity = os.original_quantity]_vars

\* a partially filled order was filled completely
C24_PartialThenFilled ==
    /\ last.op = "OrderStatus::fill_order" /\ last.err = "Ok"
    /\ last.key.before.status = "PartiallyFilled"
    /\ last.key.before.filled_quantity > 0
    /\ order_status[TheOrder].status = "Filled"
    /\ order_status[TheOrder].filled_quantity = OrderQuantity

\* C25: once the status of an OrderStatus is Filled, Cancelled or Expired, no
\* fill_order, cancel_order or mark_expired changes it.
C25_TerminalStatusKept ==
    [][order_status[TheOrder].status \in TerminalStatuses
         => order_status'[TheOrder].status = order_status[TheOrder].status]_vars

\* C26: a cancel_order of an order whose OrderStatus is Cancelled fails and
\* changes no balance; a successful cancel_order leaves the status Cancelled
\* and no instruction changes it afterwards: an order is cancelled at most
\* once.
C26_CancelOrderAtMostOnce ==
    [][\A order \in {BuyOrder, SellOrder} :
          /\ order_status[order].status = "Cancelled"
               => order_status'[order].status = "Cancelled"
          /\ (last'.op = "cancel_order" /\ CancelOrder(OrderCtx(order), order))
               => /\ last'.err = "Ok" => /\ order_status[order].status # "Cancelled"
                                          /\ order_status'[order].status = "Cancelled"
                  /\ order_status[order].status = "Cancelled"
                       => (last'.err # "Ok" /\ UNCHANGED vaultVars)]_vars

\* the owner tried to cancel again an order already cancelled, before its deadline
C26_SecondCancelRefused ==
    /\ last.op = "cancel_order" /\ last.err = "OrderAlreadyCancelled"
    /\ \E order \in {BuyOrder, SellOrder} :
          /\ last.signer = order.trader
          /\ order_status[order].status = "Cancelled"
          /\ now <= order.deadline

\* the collateral the TradeRecords show as locked from the order's trader on
\* the order's side
LockedFor(order) ==
    SumOver(TradeKeys,
            [k \in TradeKeys |->
                IF trade_record[k].trade_id = Default THEN 0
                ELSE IF order.is_buy /\ trade_record[k].buyer = order.trader
                THEN trade_record[k].buyer_collateral
                ELSE IF ~order.is_buy /\ trade_record[k].seller = order.trader
                THEN trade_record[k].seller_collateral
                ELSE 0])

\* C27: a successful cancel_order credits the owner's balance with no more
\* than the collateral locked from that balance for the order, and with 0
\* when none was locked.
C27_CancelCreditsAtMostLocked ==
    [][\A order \in {BuyOrder, SellOrder} :
          (last'.op = "cancel_order" /\ last'.err = "Ok"
             /\ CancelOrder(OrderCtx(order), order))
            => user_balance'[<<order.trader, order.collateral_token>>].balance
                 - user_balance[<<order.trader, order.collateral_token>>].balance
                 <= LockedFor(order)]_vars

\* C28: once real_mint of a TokenMarket is set, no map_token and no
\* create_token_market on the same account changes it or clears it.
C28_MappingOneWay ==
    [][\A m \in Markets :
          token_market[m].real_mint # NoneKey
            => token_market'[m].real_mint = token_market[m].real_mint]_vars

\* the bounds of the economic policy
PolicyWithinBounds(config) ==
    /\ config.buyer_collateral_ratio <= 20000
    /\ config.seller_collateral_ratio <= 20000
    /\ config.seller_reward_bps <= 1000
    /\ config.late_penalty_bps <= 10000
    /\ config.minimum_fill_amount > 0
    /\ config.maximum_order_amount > config.minimum_fill_amount

\* C29: once TradeConfig is initialized its economic policy has both
\* collateral ratios <= 20000, seller_reward_bps <= 1000, late_penalty_bps <=
\* 10000, minimum_fill_amount > 0 and maximum_order_amount >
\* minimum_fill_amount; an update_economic_config whose policy breaks a bound
\* fails and leaves the policy as it was.
C29_PolicyWithinBounds ==
    /\ [](trade_config.admin # Default => PolicyWithinBounds(trade_config.economic_config))
    /\ [][(last'.op = "update_economic_config" /\ ~PolicyWithinBounds(last'.key))
            => (last'.err # "Ok" /\ UNCHANGED trade_config)]_vars

\* floor(amount * price / 1_000_000) and floor(value * bps / 10000)
FloorTradeValue(amount, price) == (amount * price) \div 1000000
FloorShare(value, bps) == (value * bps) \div 10000

\* the sizing a calculator call owes: the product amount * price fits in u64,
\* and so does trade value * bps
CallFits(call) ==
    /\ call.amount * call.price <= U64_MAX
    /\ FloorTradeValue(call.amount, call.price) * call.bps <= U64_MAX

C31_AuthorizationFirst ==
    [][last'.op \in {"slash_balance", "transfer_out", "transfer_balance"}
         => LET caller == get_cpi_caller_program_id(last'.key)
                v == validate_cpi_caller_precise(vault_config, caller)
            IN (caller # NoProgram /\ v # "Ok") => last'.err = v]_vars

\* C32: match_orders, settle_trade and cancel_trade debit and pay out only
\* from the UserBalance records keyed by (trade buyer, collateral token) and
\* (trade seller, collateral token): a successful match lowers both of them,
\* and none of the three changes the balance of a user who is neither the
\* buyer nor the seller of the trade.
C32_OnlyPartiesRecords ==
    [][last'.op \in {"match_orders", "settle_trade", "cancel_trade"}
         => LET rec == IF last'.op = "match_orders" THEN trade_record'[last'.key]
                       ELSE trade_record[last'.key]
                b == <<rec.buyer, rec.collateral_mint>>
                sl == <<rec.seller, rec.collateral_mint>>
            IN /\ \A k \in UBKeys : user_balance'[k] # user_balance[k] => k \in {b, sl}
               /\ (last'.op = "match_orders" /\ last'.err = "Ok")
                    => /\ rec.buyer_collateral > 0 => user_balance'[b] # user_balance[b]
                       /\ rec.seller_collateral > 0 => user_balance'[sl] # user_balance[sl]]_vars

\* C33: resolution pays out of the collateral locked at match: a successful
\* settle_trade or cancel_trade leaves the available balance of the trade's
\* buyer and of its seller as it was, so that after match and resolution each
\* party's balance is lower by exactly the collateral it locked.
C33_ResolutionKeepsAvailableBalances ==
    [][(last'.op \in {"settle_trade", "cancel_trade"} /\ last'.err = "Ok")
         => LET rec == trade_record[last'.key]
                b == <<rec.buyer, rec.collateral_mint>>
                sl == <<rec.seller, rec.collateral_mint>>
            IN /\ user_balance'[b].balance = user_balance[b].balance
               /\ user_balance'[sl].balance = user_balance[sl].balance]_vars

\* C34: once the settle window of an unresolved trade has passed (now >
\* match_time + settle_time_limit) and neither program is paused, cancel_trade
\* signed by the trade's buyer succeeds, whatever the available balances of
\* the buyer and of the seller are.
C34_CancelAfterWindowSucceeds ==
    [][(/\ last'.op = "cancel_trade"
        /\ trade_record[last'.key].trade_id # Default
        /\ ~trade_record[last'.key].settled
        /\ last'.signer = trade_record[last'.key].buyer
        /\ now > Deadline(last'.key)
        /\ ~vault_config.paused /\ ~trade_config.paused)
         => last'.err = "Ok"]_vars

\* C35: a settlement never pays out more collateral than was locked for the
\* trade: for every policy validate_economic_config accepts, the seller_reward
\* of calculate_settlement_amounts is at most the buyer_collateral that
\* calculate_collateral_requirements locks for the same amount and price,
\* that is seller_collateral + seller_reward <= buyer_collateral +
\* seller_collateral.
C35_SettlementWithinLocked ==
    (/\ last.op = "calculate_settlement_amounts" /\ last.err = "Ok"
     /\ validate_economic_config(last.key.economic_config) = "Ok")
      => LET c == calculate_collateral_requirements(last.key.amount, last.key.price,
                                                    last.key.economic_config)
         IN c.err = "Ok"
              => c.seller_collateral + last.key.out.seller_reward
                   <= c.buyer_collateral + c.seller_collateral

\* C36: the filled_amount of the TradeRecords created from one signed order
\* never sums to more than the order's amount (here every record is created
\* from BuyOrder and SellOrder); in particular the pair is not matched twice
\* for its full amount.
C36_FillsWithinOrderAmount ==
    SumOver(FillKeys, [k \in FillKeys |->
                          IF trade_record[k].trade_id # Default
                          THEN trade_record[k].filled_amount ELSE 0])
      <= Min(BuyOrder.amount, SellOrder.amount)

\* C37: once cancel_order has succeeded for an order, every later match_orders
\* that uses the order fails.
C37_CancelledOrderNeverMatched ==
    [][(/\ last'.op = "match_orders"
        /\ \E order \in {BuyOrder, SellOrder} :
              /\ order_status[order].user # Default
              /\ order_status[order].status = "Cancelled")
         => last'.err # "Ok"]_vars


\* C38: in every state the vault reaches while not paused, withdraw_collateral(a)
\* by the owner of a balance succeeds for every a with 0 < a <= balance, and
\* for every token both total_deposits and the tokens held in the vault's
\* custody account are at least the sum of the token's balances.
C38_WithdrawalsSolvent ==
    /\ \A u \in VaultUsers, a \in VaultAmounts :
          LET k == <<u, "USDC">>
          IN (/\ ~vault_config.paused
              /\ user_balance[k].user # Default
              /\ 0 < a /\ a <= user_balance[k].balance)
                => withdraw_collateral(vault_config, Ledger, u, "USDC", a).err = "Ok"
    /\ \A t \in Tokens :
          /\ SumBalances(t) <= vault_authority[t].total_deposits
          /\ SumBalances(t) <= vault_ata[t]


(***************************************************************************)
(* The pause flag: every vault instruction that moves a balance, with      *)
(* pause and unpause                                                       *)
(***************************************************************************)
\* after initialize_vault, add_authorized_trader(premarket_trade) and a deposit
\* of AuthorizeBalance by each user, each user keeping InitialWallet tokens
InitPause ==
    /\ vault_config = [admin |-> Admin, emergency_admin |-> EmergencyAdmin,
                       paused |-> FALSE, authorized_traders |-> <<TRADE>>]
    /\ user_balance = [k \in UBKeys |->
                          IF k[1] \in VaultUsers /\ k[2] = "USDC"
                          THEN [user |-> k[1], token_mint |-> "USDC",
                                balance |-> AuthorizeBalance]
                          ELSE NoUserBalance]
    /\ vault_authority = [t \in Tokens |->
                             IF t = "USDC"
                             THEN [token_mint |-> "USDC",
                                   total_deposits |-> 2 * AuthorizeBalance]
                             ELSE NoVaultAuthority]
    /\ vault_ata = [t \in Tokens |-> IF t = "USDC" THEN 2 * AuthorizeBalance ELSE 0]
    /\ wallet = [k \in Users \X Mints |->
                    IF k[1] \in VaultUsers /\ k[2] = "USDC" THEN InitialWallet ELSE 0]
    /\ TradeInit(Econ(1, 100, 10000, 10000, 0, 10000))
    /\ ClockInit
    /\ last = NoLast

NextPause ==
    \/ \E signer \in {EmergencyAdmin, Admin, "u1"} : VaultPause(signer)
    \/ \E signer \in {EmergencyAdmin, Admin, "u1"} : VaultUnpause(signer)
    \/ \E u \in VaultUsers, a \in VaultAmounts :
          DepositInBound("USDC", a) /\ DepositCollateral(u, "USDC", a)
    \/ \E u \in VaultUsers, a \in VaultAmounts : WithdrawCollateral(u, "USDC", a)
    \/ \E a \in 0..2, sh \in VaultTxShapes : SlashBalance(<<"u1", "USDC">>, a, sh)
    \/ \E a \in 0..2, sh \in VaultTxShapes :
          CreditInBound(<<"u1", "USDC">>, a) /\ CreditBalance(<<"u1", "USDC">>, a, sh)
    \/ \E a \in 0..2, sh \in VaultTxShapes : TransferOut(<<"u1", "USDC">>, "u1", a, sh)
    \/ \E a \in 0..2, sh \in VaultTxShapes :
          TransferBalance("u1", "USDC", "u2", "USDC", a, sh)

SpecPause == InitPause /\ [][NextPause]_vars

\* the vault instructions that move a balance
BalanceOps ==
    {"deposit", "withdraw", "slash_balance", "credit_balance", "transfer_out",
     "transfer_balance"}

\* C39: while paused is set, every deposit, withdraw, slash_balance,
\* credit_balance, transfer_out and transfer_balance fails with VaultPaused
\* and leaves all balances and total_deposits unchanged; pause fails when
\* already paused, unpause fails when not paused, and either succeeds only
\* when signed by the emergency admin.
C39_PausedVaultRefusesAll ==
    [][/\ (vault_config.paused /\ last'.op \in BalanceOps)
           => (/\ last'.err = "VaultPaused"
               /\ UNCHANGED <<user_balance, vault_authority>>)
       /\ (last'.op = "pause" /\ vault_config.paused) => last'.err # "Ok"
       /\ (last'.op = "unpause" /\ ~vault_config.paused) => last'.err # "Ok"
       /\ (last'.op \in {"pause", "unpause"} /\ last'.err = "Ok")
           => last'.signer = vault_config.emergency_admin
       /\ (vault_config'.paused # vault_config.paused)
           => (last'.op \in {"pause", "unpause"} /\ last'.err = "Ok")]_vars

====
